---- MODULE Spec2Model ----
(***************************************************************************)
(* CRM access layer of the dashboard (src/zoho_crm.py, src/zoho_utils.py): *)
(* the OAuth2 token manager, the retrying HTTP request executor, the       *)
(* record normaliser / owner partitioner and the query facade; and the     *)
(* standalone note export (src/test.py).                                   *)
(*                                                                         *)
(* Spec        the token manager and make_api_request, one call after the  *)
(*             other, against a nondeterministic CRM API / token endpoint. *)
(* FacadeSpec  get_deals / get_leads / get_tasks / get_notes, the stage /  *)
(*             status filters and get_crm_summary applied to every value   *)
(*             make_api_request can hand them.                             *)
(* IdemSpec    get_deals() called repeatedly against a CRM API and a token *)
(*             endpoint that answer the same request the same way.         *)
(* TestSpec    test_connection() over the token manager and the executor.  *)
(* LiveSpec    Spec with every started make_api_request call scheduled.    *)
(* UtilsSpec   filter_data_by_owner of zoho_utils.py on owner partitions.  *)
(* RaceSpec    two make_api_request calls in two threads sharing the       *)
(*             global access_token.                                        *)
(* ExportSpec  fetch_filtered_notes of test.py against every Notes API;    *)
(*             ExportLiveSpec schedules its steps.                         *)
(***************************************************************************)
EXTENDS Integers, Sequences, FiniteSets, TLC

VARIABLES
    client_id,        \* zoho_crm.py:15  TRUE iff ZOHO_CLIENT_ID is set (truthy)
    client_secret,    \* zoho_crm.py:16
    refresh_token,    \* zoho_crm.py:17
    access_token,     \* zoho_crm.py:18  the process-wide token; NoToken = None or ""
    issued,           \* number of tokens the token endpoint has issued so far
    pc,               \* position of the running make_api_request call
    max_retries,      \* its argument
    attempt,          \* its loop variable
    headers,          \* the token inside the Authorization header it built
    result,           \* the value it returned
    log,              \* the HTTP traffic of the running call, in order
    calls,            \* number of make_api_request calls started
    fpc,              \* position of the facade / summary call
    fkind,            \* entity kind of the last facade call
    fresp,            \* value make_api_request returned to that facade call
    fout,             \* what the facade call returned (or that it raised)
    farg,             \* stage / status argument of the running filter call
    sowner,           \* owner_name argument of the running get_crm_summary
    sdata,            \* the four facade results get_crm_summary fetched
    sout,             \* what get_crm_summary returned
    api,              \* a fixed CRM API: its answer to a GET, per token
    tokenEndpoint,    \* a fixed token endpoint: its answer to every POST
    outs,             \* what the get_deals() calls made so far returned
    th,               \* two concurrent make_api_request calls, one per thread
    ex                \* the running fetch_filtered_notes of test.py

execVars == <<client_id, client_secret, refresh_token, access_token, issued,
              pc, max_retries, attempt, headers, result, log, calls>>
facadeVars == <<fpc, fkind, fresp, fout, farg, sowner, sdata, sout>>
upstreamVars == <<api, tokenEndpoint, outs>>
otherVars == <<th, ex>>
vars == <<client_id, client_secret, refresh_token, access_token, issued,
          pc, max_retries, attempt, headers, result, log, calls,
          fpc, fkind, fresp, fout, farg, sowner, sdata, sout,
          api, tokenEndpoint, outs,
          th, ex>>

(***************************************************************************)
(* Bounds of the model.                                                    *)
(***************************************************************************)
\* largest retry budget a call is started with
MaxRetriesBound == 2
\* make_api_request calls in one behaviour
MaxCalls == 2

(***************************************************************************)
(* Program constants.                                                      *)
(***************************************************************************)
\* max_retries=2, the default every facade uses
DefaultMaxRetries == 2
\* access_token is None (or the empty string): falsy
NoToken == 0
\* the token ZOHO_ACCESS_TOKEN seeds the process with
SeedToken == 1

\* budgets a call is started with; -1 makes range(max_retries + 1) empty
RetryBudgets == (0 - 1)..MaxRetriesBound

\* response bodies of the CRM API, opaque to the executor
Bodies == {"b1", "b2", "b3"}

\* what one GET can produce: a status with a body, or an exception
GetOutcomes ==
    [kind : {"status"}, status : {200, 401, 500}, body : Bodies]
    \cup [kind : {"neterr", "exc"}, status : {0}, body : {""}]

\* what one POST to the token endpoint can produce
\*   ok       HTTP 200 with an access_token field
\*   nofield  HTTP 200, access_token missing or empty
\*   non200   any other status
\*   neterr   a RequestException (or any other exception) from requests.post
PostOutcomes == {"ok", "nofield", "non200", "neterr"}

\* the token the endpoint issues next: a fresh one each time
NewToken(n) == SeedToken + n + 1

\* the tokens a GET can carry: the seeded one, or one the endpoint issued
TokenClasses == {"seed", "issued"}
TokenClass(tok) == IF tok = SeedToken THEN "seed" ELSE "issued"

(***************************************************************************)
(* Values make_api_request returns.                                        *)
(***************************************************************************)
ErrMsg(text, status, detail) == [text |-> text, status |-> status, detail |-> detail]
ErrorResult(msg) == [kind |-> "Error", msg |-> msg, body |-> ""]
JsonResult(b) == [kind |-> "json", msg |-> ErrMsg("", 0, ""), body |-> b]
NoResult == [kind |-> "none", msg |-> ErrMsg("", 0, ""), body |-> ""]

MsgNoHeaders == ErrMsg("Unable to get valid headers for API request", 0, "")
MsgNoRefresh == ErrMsg("Unable to refresh access token", 0, "")
MsgApiFailed(status, body) == ErrMsg("API request failed", status, body)
MsgNetwork == ErrMsg("Network error during API request", 0, "")
MsgUnexpected == ErrMsg("Unexpected error during API request", 0, "")
MsgMaxRetries == ErrMsg("Max retries exceeded", 0, "")

\* entries of log
GetEvent(tok, o) == [ev |-> "GET", tok |-> tok, out |-> o.kind,
                     status |-> o.status, body |-> o.body]
PostEvent(tok, o) == [ev |-> "POST", tok |-> tok, out |-> o,
                      status |-> 0, body |-> ""]
\* a refresh_access_token call validate_config turned away: no POST is sent
NoPostEvent == [ev |-> "REFUSED", tok |-> NoToken, out |-> "config",
                status |-> 0, body |-> ""]

(***************************************************************************)
(* Token manager.                                                          *)
(***************************************************************************)
validate_config == client_id /\ client_secret /\ refresh_token

\* mutant: the refresh reports success but never assigns the global
StoredAfterRefresh_NotStored(cur, o, t) ==
    CASE o = "nofield" -> NoToken
      [] OTHER         -> cur

\* the token refresh_access_token leaves in the global, given the token
\* stored before, the endpoint's answer and the token it issued
StoredAfterRefresh(cur, o, t) ==
    CASE o = "ok"      -> t
      [] o = "nofield" -> NoToken
      [] OTHER         -> cur

\* refresh_access_token(): what it returns, the token it leaves stored and
\* the traffic it caused
refresh_access_token(cur, o, t) ==
    IF ~validate_config
    THEN [ok |-> FALSE, token |-> cur, event |-> NoPostEvent]
    ELSE [ok |-> o = "ok",
          token |-> StoredAfterRefresh(cur, o, t),
          event |-> PostEvent(IF o = "ok" THEN t ELSE NoToken, o)]

\* mutant: get_headers refreshes on every call
NeedsRefresh_Always(cur) == TRUE

\* `if not access_token:` in get_headers
NeedsRefresh(cur) == cur = NoToken

\* get_headers(): None (ok = FALSE) when the refresh it needed failed, else a
\* header built from the global as it is after the refresh
get_headers(cur, o, t) ==
    IF NeedsRefresh(cur)
    THEN LET r == refresh_access_token(cur, o, t) IN
         [ok |-> r.ok, hdr |-> IF r.ok THEN r.token ELSE NoToken,
          token |-> r.token, events |-> <<r.event>>]
    ELSE [ok |-> TRUE, hdr |-> cur, token |-> cur, events |-> <<>>]

(***************************************************************************)
(* HTTP request executor: make_api_request(url, max_retries).              *)
(***************************************************************************)
\* mutant: the missing-headers test is dropped
HeadersMissing_Never(h) == FALSE

\* `if not headers:` in make_api_request
HeadersMissing(h) == ~h.ok

\* mutant: every non-200 status is retried
RetryableStatus_AnyFailure(status) == status # 200

\* the status that makes make_api_request refresh and retry
RetryableStatus(status) == status = 401

\* mutant: the 401 retry stops one attempt early
RetryOn401_OneShort(att, n) == att + 1 < n

\* mutant: a 401 is followed by a refresh on the last attempt too
RetryOn401_Always(att, n) == TRUE

\* `elif response.status_code == 401 and attempt < max_retries`
RetryOn401(att, n) == att < n

\* mutant: the last attempt's network error falls out of the loop
LastAttempt_Never(att, n) == FALSE

\* mutant: a network error gives up one attempt early
LastAttempt_OneShort(att, n) == att + 1 >= n

\* `if attempt == max_retries: return {"Error": error_msg}`
LastAttempt(att, n) == att = n

\* the end of one pass through the loop body (a `continue`, or falling out
\* of the try statement): the next attempt, or the statement after the loop
AfterLoopBody(att, n) ==
    IF att + 1 <= n
    THEN [pc |-> "headers", result |-> NoResult]
    ELSE [pc |-> "done", result |-> ErrorResult(MsgMaxRetries)]

\* what the loop body does with the outcome o of its GET on attempt att:
\* the if / elif / else on the status, and the two except clauses
OnGetOutcome(o, att, n) ==
    IF o.kind = "status"
    THEN IF o.status = 200
         THEN [pc |-> "done", result |-> JsonResult(o.body), attempt |-> att]
         ELSE IF RetryableStatus(o.status) /\ RetryOn401(att, n)
         THEN [pc |-> "refresh", result |-> NoResult, attempt |-> att]
         ELSE [pc |-> "done", attempt |-> att,
               result |-> ErrorResult(MsgApiFailed(o.status, o.body))]
    ELSE IF o.kind = "neterr"
    THEN IF LastAttempt(att, n)
         THEN [pc |-> "done", result |-> ErrorResult(MsgNetwork), attempt |-> att]
         ELSE [pc |-> AfterLoopBody(att, n).pc,
               result |-> AfterLoopBody(att, n).result, attempt |-> att + 1]
    ELSE [pc |-> "done", result |-> ErrorResult(MsgUnexpected), attempt |-> att]

\* a caller invokes make_api_request(url, n)
make_api_request_begin(n) ==
    /\ pc \in {"idle", "done"}
    /\ calls < MaxCalls
    /\ calls' = calls + 1
    /\ max_retries' = n
    /\ attempt' = 0
    /\ headers' = NoToken
    /\ log' = <<>>
    /\ IF 0 <= n
       THEN pc' = "headers" /\ result' = NoResult
       ELSE pc' = "done" /\ result' = ErrorResult(MsgMaxRetries)
    /\ UNCHANGED <<client_id, client_secret, refresh_token, access_token, issued>>
    /\ UNCHANGED facadeVars
    /\ UNCHANGED upstreamVars
    /\ UNCHANGED otherVars

\* `headers = get_headers()` and `if not headers: return {"Error": ...}`
make_api_request_get_headers ==
    /\ pc = "headers"
    /\ \E o \in PostOutcomes :
         LET h == get_headers(access_token, o, NewToken(issued)) IN
         /\ access_token' = h.token
         /\ issued' = issued + Len(SelectSeq(h.events, LAMBDA e : e.out = "ok"))
         /\ log' = log \o h.events
         /\ headers' = h.hdr
         /\ IF HeadersMissing(h)
            THEN pc' = "done" /\ result' = ErrorResult(MsgNoHeaders)
            ELSE pc' = "get" /\ result' = result
    /\ UNCHANGED <<client_id, client_secret, refresh_token, max_retries, attempt, calls>>
    /\ UNCHANGED facadeVars
    /\ UNCHANGED upstreamVars
    /\ UNCHANGED otherVars

\* `response = requests.get(url, headers=headers, timeout=30)` and the
\* branch taken on its outcome
make_api_request_get ==
    /\ pc = "get"
    /\ \E o \in GetOutcomes :
         LET r == OnGetOutcome(o, attempt, max_retries) IN
         /\ log' = Append(log, GetEvent(headers, o))
         /\ pc' = r.pc
         /\ result' = r.result
         /\ attempt' = r.attempt
    /\ UNCHANGED <<client_id, client_secret, refresh_token, access_token, issued,
                   max_retries, headers, calls>>
    /\ UNCHANGED facadeVars
    /\ UNCHANGED upstreamVars
    /\ UNCHANGED otherVars

\* the 401 branch: `if refresh_access_token(): continue`, else the error
make_api_request_on401 ==
    /\ pc = "refresh"
    /\ \E o \in PostOutcomes :
         LET r == refresh_access_token(access_token, o, NewToken(issued)) IN
         /\ access_token' = r.token
         /\ issued' = IF r.event.out = "ok" THEN issued + 1 ELSE issued
         /\ log' = Append(log, r.event)
         /\ IF r.ok
            THEN /\ pc' = AfterLoopBody(attempt, max_retries).pc
                 /\ result' = AfterLoopBody(attempt, max_retries).result
                 /\ attempt' = attempt + 1
            ELSE /\ pc' = "done"
                 /\ result' = ErrorResult(MsgNoRefresh)
                 /\ attempt' = attempt
    /\ UNCHANGED <<client_id, client_secret, refresh_token, max_retries, headers, calls>>
    /\ UNCHANGED facadeVars
    /\ UNCHANGED upstreamVars
    /\ UNCHANGED otherVars

(***************************************************************************)
(* Python values, as far as the facade handles them.  Every value carries  *)
(* its type in t; a dict keeps its items in insertion order.               *)
(***************************************************************************)
PyNone == [t |-> "none"]
PyStr(s) == [t |-> "str", s |-> s]
PyInt(n) == [t |-> "int", n |-> n]
PyList(xs) == [t |-> "list", xs |-> xs]
PyDict(kv) == [t |-> "dict", kv |-> kv]
PyBool(b) == [t |-> "bool", b |-> b]
PyTuple(xs) == [t |-> "tuple", xs |-> xs]
\* one item of a dict whose key is a string
KV(k, v) == [k |-> PyStr(k), v |-> v]

\* an expression's outcome: a value, or an exception (an Exception subclass)
Ok(v) == [exc |-> FALSE, val |-> v]
Raise == [exc |-> TRUE, val |-> PyNone]

\* bool(v)
Truthy(v) ==
    CASE v.t = "none" -> FALSE
      [] v.t = "str"  -> v.s # ""
      [] v.t = "int"  -> v.n # 0
      [] v.t = "list" -> v.xs # <<>>
      [] v.t = "dict" -> v.kv # <<>>

\* mutant: `a or b` keeps a falsy a
PyOr_First(a, b) == a

\* `a or b`
PyOr(a, b) == IF Truthy(a) THEN a ELSE b

\* whether v can be a dict key
Hashable(v) == v.t \notin {"list", "dict"}

HasKey(d, k) == \E i \in DOMAIN d.kv : d.kv[i].k = k
KeyIndex(d, k) == CHOOSE i \in DOMAIN d.kv : d.kv[i].k = k
\* d.get(k, dflt) on a dict d
DictGet(d, k, dflt) == IF HasKey(d, k) THEN d.kv[KeyIndex(d, k)].v ELSE dflt
\* d.keys(), d.values()
DictKeys(d) == [i \in DOMAIN d.kv |-> d.kv[i].k]
DictValues(d) == [i \in DOMAIN d.kv |-> d.kv[i].v]
\* mutant: new records and new owners go to the front
DictAppend_Prepend(d, k, x) ==
    IF HasKey(d, k)
    THEN PyDict([d.kv EXCEPT ![KeyIndex(d, k)].v = PyList(<<x>> \o @.xs)])
    ELSE PyDict(<<[k |-> k, v |-> PyList(<<x>>)]>> \o d.kv)

\* defaultdict(list): d[k].append(x)
DictAppend(d, k, x) ==
    IF HasKey(d, k)
    THEN PyDict([d.kv EXCEPT ![KeyIndex(d, k)].v = PyList(Append(@.xs, x))])
    ELSE PyDict(Append(d.kv, [k |-> k, v |-> PyList(<<x>>)]))

\* the strings of the model that contain the text "Error"
HasErrorText(s) == s \in {"Error", "Error: rate limit", "Error 500 fix"}

\* `"Error" in c`: key test on a dict, element test on a list, substring
\* test on a str, TypeError on anything else
ErrorIn(c) ==
    CASE c.t = "dict" -> Ok(HasKey(c, PyStr("Error")))
      [] c.t = "list" -> Ok(\E i \in DOMAIN c.xs : c.xs[i] = PyStr("Error"))
      [] c.t = "str"  -> Ok(HasErrorText(c.s))
      [] OTHER        -> [exc |-> TRUE, val |-> FALSE]

\* `for x in v`: the elements of a list, the keys of a dict, the characters
\* of a str (the model's only non-empty str in this place has one
\* character), TypeError on anything else
PyIter(v) ==
    CASE v.t = "list" -> [exc |-> FALSE, val |-> v.xs]
      [] v.t = "dict" -> [exc |-> FALSE, val |-> DictKeys(v)]
      [] v.t = "str"  -> [exc |-> FALSE, val |-> IF v.s = "" THEN <<>> ELSE <<v>>]
      [] OTHER        -> [exc |-> TRUE, val |-> <<>>]

(***************************************************************************)
(* Record normaliser and owner partitioner (zoho_crm.py).                  *)
(***************************************************************************)
Kinds == {"deals", "leads", "tasks", "notes"}

\* mutant: every facade answers an empty fetch with get_deals' sentinel
SentinelKey_AlwaysDeals(kind) == "No Deals"

\* `return {"No Deals": []}` and its siblings
SentinelKey(kind) ==
    CASE kind = "deals" -> "No Deals"
      [] kind = "leads" -> "No Leads"
      [] kind = "tasks" -> "No Tasks"
      [] kind = "notes" -> "No Notes"

\* the normalised record's owner field
OwnerField(kind) ==
    CASE kind = "deals" -> "Deal Owner"
      [] kind = "leads" -> "Lead Owner"
      [] kind = "tasks" -> "Task Owner"
      [] kind = "notes" -> "Note Owner"

\* `or "Unknown Owner"`
DefaultOwner == PyStr("Unknown Owner")

F(out, src, how, dflt) == [out |-> out, src |-> src, how |-> how, dflt |-> dflt]

\* the dict literal each facade builds: output field, upstream field, how
\* it is read (get: record.get(src, dflt); name: _extract_name(record.get(src));
\* module: record.get(src, {}).get("module", dflt)) and the default
Fields(kind) ==
    CASE kind = "deals" ->
        << F("Deal ID", "id", "get", PyNone),
           F("Deal Name", "Deal_Name", "get", PyStr("Unnamed Deal")),
           F("Account Name", "Account_Name", "name", PyNone),
           F("Deal Owner", "Owner", "name", PyNone),
           F("Stage", "Stage", "get", PyStr("Unknown")),
           F("Amount", "Amount", "get", PyNone),
           F("Closing Date", "Closing_Date", "get", PyNone),
           F("Service Line", "Service_Line", "get", PyNone),
           F("Accelerators/Personalized Service",
             "Accelerators_or_Personalized_Service", "get", PyNone),
           F("Tags", "Tags", "get", PyNone),
           F("Created Time", "Created_Time", "get", PyNone),
           F("Modified Time", "Modified_Time", "get", PyNone) >>
      [] kind = "leads" ->
        << F("Lead ID", "id", "get", PyNone),
           F("Lead Name", "Full_Name", "get", PyStr("Unnamed Lead")),
           F("Company", "Company", "get", PyStr("No Company")),
           F("Lead Owner", "Owner", "name", PyNone),
           F("Email", "Email", "get", PyStr("No Email")),
           F("Phone", "Phone", "get", PyStr("No Phone")),
           F("Lead Status", "Lead_Status", "get", PyStr("Unknown")),
           F("Lead Source", "Lead_Source", "get", PyStr("Unknown")),
           F("Tags", "Tag", "get", PyList(<<>>)),
           F("Created Time", "Created_Time", "get", PyNone),
           F("Modified Time", "Modified_Time", "get", PyNone) >>
      [] kind = "tasks" ->
        << F("Task ID", "id", "get", PyNone),
           F("Task Subject", "Subject", "get", PyStr("Unnamed Task")),
           F("Task Owner", "Owner", "name", PyNone),
           F("Status", "Status", "get", PyStr("Not Started")),
           F("Priority", "Priority", "get", PyStr("Normal")),
           F("Due Date", "Due_Date", "get", PyNone),
           F("Related To", "What_Id", "name", PyNone),
           F("Start Date", "Start_Date", "get", PyNone),
           F("Description", "Description", "get", PyStr("No Description")),
           F("Created Time", "Created_Time", "get", PyNone),
           F("Modified Time", "Modified_Time", "get", PyNone) >>
      [] kind = "notes" ->
        << F("Note ID", "id", "get", PyNone),
           F("Note Title", "Note_Title", "get", PyStr("Untitled Note")),
           F("Note Content", "Note_Content", "get", PyStr("No Content")),
           F("Note Owner", "Owner", "name", PyNone),
           F("Parent Module", "Parent_Id", "module", PyStr("Unknown")),
           F("Parent Record", "Parent_Id", "name", PyNone),
           F("Created Time", "Created_Time", "get", PyNone),
           F("Modified Time", "Modified_Time", "get", PyNone) >>

\* _extract_name(field_data)
extract_name(field_data) ==
    CASE field_data.t = "dict" -> DictGet(field_data, PyStr("name"), PyStr("Unknown"))
      [] field_data.t = "str"  -> field_data
      [] OTHER                 -> PyNone

\* one entry of the dict literal, evaluated on the raw record (a dict)
FieldValue(raw, f) ==
    CASE f.how = "get"  -> Ok(DictGet(raw, PyStr(f.src), f.dflt))
      [] f.how = "name" -> Ok(extract_name(DictGet(raw, PyStr(f.src), PyNone)))
      [] f.how = "module" ->
            LET parent == DictGet(raw, PyStr(f.src), PyDict(<<>>)) IN
            IF parent.t = "dict"
            THEN Ok(DictGet(parent, PyStr("module"), f.dflt))
            ELSE Raise

\* the dict literal of one facade on one raw record: AttributeError when the
\* record has no .get, or when one of its entries raises
Normalize(kind, raw) ==
    IF raw.t # "dict"
    THEN Raise
    ELSE LET fs == Fields(kind)
             vals == [i \in DOMAIN fs |-> FieldValue(raw, fs[i])]
         IN  IF \E i \in DOMAIN fs : vals[i].exc
             THEN Raise
             ELSE Ok(PyDict([i \in DOMAIN fs |-> KV(fs[i].out, vals[i].val)]))

\* the body of the per-record try: normalise, pick the owner key, append
ProcessRecord(kind, raw, acc) ==
    LET n == Normalize(kind, raw) IN
    IF n.exc
    THEN Raise
    ELSE LET owner == PyOr(DictGet(n.val, PyStr(OwnerField(kind)), PyNone), DefaultOwner) IN
         IF Hashable(owner) THEN Ok(DictAppend(acc, owner, n.val)) ELSE Raise

\* the per-record `except Exception as e:` clause: its log line evaluates
\* record.get('id', 'unknown'), then `continue`
RecordHandler(raw, acc) == IF raw.t = "dict" THEN Ok(acc) ELSE Raise

\* the `for record in records:` loop from position i on
RECURSIVE PartitionFrom(_, _, _, _)
PartitionFrom(kind, records, i, acc) ==
    IF i > Len(records)
    THEN Ok(acc)
    ELSE LET r == ProcessRecord(kind, records[i], acc)
             next == IF r.exc THEN RecordHandler(records[i], acc) ELSE r
         IN  IF next.exc THEN Raise ELSE PartitionFrom(kind, records, i + 1, next.val)

\* {"Error": [message]}
ErrorMapping(message) == PyDict(<<KV("Error", PyList(<<message>>))>>)

\* the statements inside the facade's outer try
FacadeBody(kind, response_data) ==
    LET isErr == ErrorIn(response_data) IN
    IF isErr.exc
    THEN Raise
    ELSE IF isErr.val
    THEN IF response_data.t = "dict"
         THEN Ok(ErrorMapping(DictGet(response_data, PyStr("Error"), PyNone)))
         ELSE Raise
    ELSE IF response_data.t # "dict"
    THEN Raise
    ELSE LET data == DictGet(response_data, PyStr("data"), PyList(<<>>)) IN
         IF ~Truthy(data)
         THEN Ok(PyDict(<<KV(SentinelKey(kind), PyList(<<>>))>>))
         ELSE LET it == PyIter(data) IN
              IF it.exc THEN Raise ELSE PartitionFrom(kind, it.val, 1, PyDict(<<>>))

\* mutant: the facade has no outer try
OuterTry_Absent(r) == r

\* the facade's outer `except Exception as e:` clause
OuterTry(r) ==
    IF r.exc THEN Ok(ErrorMapping(PyStr("Unexpected error: <e>"))) ELSE r

Facade(kind, response_data) == OuterTry(FacadeBody(kind, response_data))

get_deals(response_data) == Facade("deals", response_data)
get_leads(response_data) == Facade("leads", response_data)
get_tasks(response_data) == Facade("tasks", response_data)
get_notes(response_data) == Facade("notes", response_data)

(***************************************************************************)
(* filter_data_by_owner and get_crm_summary (zoho_crm.py).                 *)
(***************************************************************************)
\* len(v) of a list or a dict
PyLen(v) == IF v.t = "list" THEN Len(v.xs) ELSE Len(v.kv)

\* filter_data_by_owner(data, owner_name)
filter_data_by_owner(data, owner_name) ==
    IF owner_name = PyStr("All") \/ ~Truthy(owner_name)
    THEN data
    ELSE IF data.t = "dict"
    THEN DictGet(data, owner_name, PyList(<<>>))
    ELSE PyList(<<>>)

\* the `else` branch of get_crm_summary: every list among data.values(),
\* concatenated in the mapping's order
RECURSIVE FlattenFrom(_, _)
FlattenFrom(values, i) ==
    IF i > Len(values)
    THEN <<>>
    ELSE (IF values[i].t = "list" THEN values[i].xs ELSE <<>>) \o FlattenFrom(values, i + 1)

Flatten(data) == PyList(FlattenFrom(DictValues(data), 1))

\* str.lower() on the stage texts of the model
Lower(s) ==
    CASE s = "Closed Won"  -> "closed won"
      [] s = "CLOSED WON"  -> "closed won"
      [] s = "Closed Lost" -> "closed lost"
      [] s = "Negotiation" -> "negotiation"
      [] s = "Unknown"     -> "unknown"
      [] s = "Completed"   -> "completed"
      [] s = "Not Started" -> "not started"
      [] s = "Contacted"   -> "contacted"
      [] OTHER             -> s

\* deal.get('Amount') of one element of deals; AttributeError on a non-dict
AmountOf(deal) ==
    IF deal.t = "dict" THEN Ok(DictGet(deal, PyStr("Amount"), PyNone)) ELSE Raise

\* sum(deal.get('Amount', 0) for deal in deals if deal.get('Amount'))
RECURSIVE SumAmounts(_, _)
SumAmounts(deals, i) ==
    IF i > Len(deals)
    THEN [exc |-> FALSE, val |-> 0]
    ELSE LET a == AmountOf(deals[i])
             rest == SumAmounts(deals, i + 1)
         IN  IF a.exc \/ rest.exc
             THEN [exc |-> TRUE, val |-> 0]
             ELSE IF ~Truthy(a.val)
             THEN rest
             ELSE IF a.val.t = "int"
             THEN [exc |-> FALSE, val |-> a.val.n + rest.val]
             ELSE [exc |-> TRUE, val |-> 0]

\* mutant: the stage text is compared without .lower()
IsClosedWon_CaseSensitive(deal) ==
    IF deal.t # "dict"
    THEN [exc |-> TRUE, val |-> FALSE]
    ELSE LET st == DictGet(deal, PyStr("Stage"), PyStr("")) IN
         IF st.t = "str"
         THEN [exc |-> FALSE, val |-> st.s = "closed won"]
         ELSE [exc |-> TRUE, val |-> FALSE]

\* deal.get('Stage', '').lower() == 'closed won'; AttributeError when the
\* deal is not a dict or its Stage is not a str
IsClosedWon(deal) ==
    IF deal.t # "dict"
    THEN [exc |-> TRUE, val |-> FALSE]
    ELSE LET st == DictGet(deal, PyStr("Stage"), PyStr("")) IN
         IF st.t = "str"
         THEN [exc |-> FALSE, val |-> Lower(st.s) = "closed won"]
         ELSE [exc |-> TRUE, val |-> FALSE]

SummaryOf(leads, deals, tasks, notes, total, closed, closedValue) ==
    [exc |-> FALSE,
     leads |-> leads, deals |-> deals, tasks |-> tasks, notes |-> notes,
     total_leads |-> PyLen(leads), total_deals |-> PyLen(deals),
     total_tasks |-> PyLen(tasks), total_notes |-> PyLen(notes),
     total_deal_value |-> total, closed_deals |-> closed,
     closed_deal_value |-> closedValue]

\* the dict get_crm_summary returns from its except clause
EmptySummary ==
    [exc |-> FALSE,
     leads |-> PyList(<<>>), deals |-> PyList(<<>>),
     tasks |-> PyList(<<>>), notes |-> PyList(<<>>),
     total_leads |-> 0, total_deals |-> 0, total_tasks |-> 0, total_notes |-> 0,
     total_deal_value |-> 0, closed_deals |-> 0, closed_deal_value |-> 0]

\* the statements inside get_crm_summary's try, given the four mappings
\* the facades returned
SummaryBody(owner_name, data) ==
    LET pick(d) == IF owner_name # PyStr("All")
                   THEN filter_data_by_owner(d, owner_name)
                   ELSE Flatten(d)
        leads == pick(data.leads)
        deals == pick(data.deals)
        tasks == pick(data.tasks)
        notes == pick(data.notes)
        it == PyIter(deals)
        total == SumAmounts(it.val, 1)
        flags == [i \in DOMAIN it.val |-> IsClosedWon(it.val[i])]
        closed == SelectSeq(it.val, LAMBDA d : IsClosedWon(d).val)
        closedValue == SumAmounts(closed, 1)
    IN  IF it.exc \/ total.exc \/ (\E i \in DOMAIN flags : flags[i].exc) \/ closedValue.exc
        THEN [EmptySummary EXCEPT !.exc = TRUE]
        ELSE SummaryOf(leads, deals, tasks, notes, total.val, Len(closed), closedValue.val)

\* get_crm_summary(owner_name) once its four fetches have returned
get_crm_summary(owner_name, data) ==
    LET r == SummaryBody(owner_name, data) IN
    IF r.exc THEN EmptySummary ELSE r

(***************************************************************************)
(* filter_data_by_owner of zoho_utils.py.                                  *)
(***************************************************************************)
\* `"Error" in str(data)`: the text of a dict or a list shows every key and
\* every value it holds, at any depth
RECURSIVE ErrorInStr(_)
ErrorInStr(v) ==
    CASE v.t = "str"  -> HasErrorText(v.s)
      [] v.t = "list" -> \E i \in DOMAIN v.xs : ErrorInStr(v.xs[i])
      [] v.t = "dict" -> \E i \in DOMAIN v.kv :
                            ErrorInStr(v.kv[i].k) \/ ErrorInStr(v.kv[i].v)
      [] OTHER        -> FALSE

\* `"Error" in str(data)`
LooksLikeError(data) == ErrorInStr(data)

\* filter_data_by_owner(data, owner_filter) of zoho_utils.py
utils_filter_data_by_owner(data, owner_filter) ==
    IF ~Truthy(data) \/ LooksLikeError(data) \/ ~Truthy(owner_filter)
    THEN Ok(data)
    ELSE LET wanted == IF owner_filter.t = "str" THEN <<owner_filter>> ELSE owner_filter.xs IN
         IF data.t # "dict"
         THEN Raise
         ELSE Ok(PyDict(SelectSeq(data.kv,
                    LAMBDA e : \E i \in DOMAIN wanted : wanted[i] = e.k)))

(***************************************************************************)
(* test_connection (zoho_crm.py).                                          *)
(***************************************************************************)
\* the (success, message) pair test_connection returns
Pair(ok, message) == PyTuple(<<PyBool(ok), PyStr(message)>>)

\* f"API connection failed: {response_data['Error']}"
ConnectionFailed(e) ==
    "API connection failed: " \o (IF e.t = "str" THEN e.s ELSE "<value>")

\* the statements of test_connection after make_api_request returned
TestBody(response_data) ==
    LET isErr == ErrorIn(response_data) IN
    IF isErr.exc
    THEN Raise
    ELSE IF isErr.val
    THEN IF response_data.t = "dict"
         THEN Ok(Pair(FALSE, ConnectionFailed(DictGet(response_data, PyStr("Error"), PyNone))))
         ELSE Raise
    ELSE Ok(Pair(TRUE, "API connection successful"))

\* `except Exception as e: return False, f"Connection error: {str(e)}"`
TestHandler(r) == IF r.exc THEN Ok(Pair(FALSE, "Connection error: <e>")) ELSE r

(***************************************************************************)
(* get_deals_by_stage, get_tasks_by_status, get_leads_by_status            *)
(* (zoho_crm.py).                                                          *)
(***************************************************************************)
FilterKinds == {"deals", "tasks", "leads"}

\* the field of the normalised record each filter compares
StageField(kind) ==
    CASE kind = "deals" -> "Stage"
      [] kind = "tasks" -> "Status"
      [] kind = "leads" -> "Lead Status"

\* mutant: the comparison is case-sensitive
MatchesStage_CaseSensitive(kind, record, stage) ==
    IF record.t # "dict"
    THEN [exc |-> TRUE, val |-> FALSE]
    ELSE LET v == DictGet(record, PyStr(StageField(kind)), PyStr("")) IN
         IF v.t = "str" /\ stage.t = "str"
         THEN [exc |-> FALSE, val |-> v.s = stage.s]
         ELSE [exc |-> TRUE, val |-> FALSE]

\* `deal.get("Stage", "").lower() == stage.lower()`; AttributeError when
\* either side is not a str
MatchesStage(kind, record, stage) ==
    IF record.t # "dict"
    THEN [exc |-> TRUE, val |-> FALSE]
    ELSE LET v == DictGet(record, PyStr(StageField(kind)), PyStr("")) IN
         IF v.t = "str" /\ stage.t = "str"
         THEN [exc |-> FALSE, val |-> Lower(v.s) = Lower(stage.s)]
         ELSE [exc |-> TRUE, val |-> FALSE]

\* `for deal in owner_deals:` from position i on
RECURSIVE FilterOwner(_, _, _, _, _, _)
FilterOwner(kind, owner, records, i, stage, acc) ==
    IF i > Len(records)
    THEN Ok(acc)
    ELSE LET mt == MatchesStage(kind, records[i], stage) IN
         IF mt.exc
         THEN Raise
         ELSE FilterOwner(kind, owner, records, i + 1, stage,
                          IF mt.val THEN DictAppend(acc, owner, records[i]) ELSE acc)

\* `for owner, owner_deals in deals.items():` from position i on
RECURSIVE FilterFrom(_, _, _, _, _)
FilterFrom(kind, items, i, stage, acc) ==
    IF i > Len(items)
    THEN Ok(acc)
    ELSE LET it == PyIter(items[i].v)
             r == IF it.exc
                  THEN Raise
                  ELSE FilterOwner(kind, items[i].k, it.val, 1, stage, acc)
         IN  IF r.exc THEN Raise ELSE FilterFrom(kind, items, i + 1, stage, r.val)

\* the statements inside the filter's try, given what the facade returned
FilterBody(kind, stage, data) ==
    LET isErr == ErrorIn(data) IN
    IF isErr.exc
    THEN Raise
    ELSE IF isErr.val \/ ~Truthy(stage)
    THEN Ok(data)
    ELSE IF data.t # "dict"
    THEN Raise
    ELSE FilterFrom(kind, data.kv, 1, stage, PyDict(<<>>))

\* the filter's `except Exception as e: return {"Error": [str(e)]}`
FilterHandler(r) == IF r.exc THEN Ok(ErrorMapping(PyStr("<e>"))) ELSE r

\* one filter, from the value make_api_request returned to its fetch
ByStage(kind, stage, response_data) ==
    FilterHandler(FilterBody(kind, stage, Facade(kind, response_data).val))

get_deals_by_stage(stage, response_data) == ByStage("deals", stage, response_data)
get_tasks_by_status(status, response_data) == ByStage("tasks", status, response_data)
get_leads_by_status(status, response_data) == ByStage("leads", status, response_data)

(***************************************************************************)
(* Inputs of the facade: what make_api_request can return to it.           *)
(***************************************************************************)
\* records in one upstream page
MaxBatch == 2
\* records per page in the pages get_crm_summary is run on
MaxSummaryBatch == 2

\* the f-strings of make_api_request's error messages
Render(msg) ==
    IF msg.text = "API request failed"
    THEN msg.text \o ": " \o ToString(msg.status) \o " - " \o msg.detail
    ELSE IF msg.text \in {"Network error during API request",
                          "Unexpected error during API request"}
    THEN msg.text \o ": <e>"
    ELSE msg.text

\* the Python value of what make_api_request returned; json is the decoded
\* body of a 200 response
PyOfResult(r, json) ==
    IF r.kind = "Error" THEN PyDict(<<KV("Error", PyStr(Render(r.msg)))>>) ELSE json

\* every ErrorResult make_api_request can return
ErrorMessages ==
    {MsgNoHeaders, MsgNoRefresh, MsgNetwork, MsgUnexpected, MsgMaxRetries}
    \cup {MsgApiFailed(st, b) : st \in {401, 500}, b \in Bodies}
ErrorResponses == {PyOfResult(ErrorResult(m), PyNone) : m \in ErrorMessages}

\* a field left out of an upstream record
Absent == [t |-> "absent"]
MkDict(kv) == PyDict(SelectSeq(kv, LAMBDA e : e.v # Absent))

\* upstream Owner values
OwnerInputs ==
    { Absent, PyNone, PyStr("Raja"), PyStr(""), PyStr("Error"), PyInt(7),
      PyDict(<<KV("name", PyStr("Raja")), KV("id", PyStr("u1"))>>),
      PyDict(<<KV("name", PyStr("Priya")), KV("id", PyStr("u2"))>>),
      PyDict(<<KV("name", PyNone)>>),
      PyDict(<<KV("name", PyStr(""))>>),
      PyDict(<<KV("id", PyStr("u3"))>>),
      PyDict(<<KV("name", PyList(<<PyStr("Raja")>>))>>) }

\* upstream Parent_Id values of a note
ParentInputs ==
    { Absent, PyNone,
      PyDict(<<KV("name", PyStr("Acme")), KV("module", PyStr("Deals"))>>) }

\* upstream records without their id: every Owner value, for a note also
\* every Parent_Id value, and values that are no mapping at all
RawShapes(kind) ==
    LET raja == PyDict(<<KV("name", PyStr("Raja")), KV("id", PyStr("u1"))>>)
        acme == PyDict(<<KV("name", PyStr("Acme")), KV("module", PyStr("Deals"))>>)
    IN  {PyNone, PyStr("x")}
        \cup IF kind = "notes"
             THEN {MkDict(<<KV("Owner", o), KV("Parent_Id", acme)>>) : o \in OwnerInputs}
                  \cup {MkDict(<<KV("Owner", raja), KV("Parent_Id", p)>>) : p \in ParentInputs}
             ELSE {MkDict(<<KV("Owner", o)>>) : o \in OwnerInputs}

\* the i-th record of a page
WithId(raw, i) ==
    IF raw.t = "dict" THEN PyDict(<<KV("id", PyStr(ToString(i)))>> \o raw.kv) ELSE raw

PagesOf(shapes, maxLen) ==
    UNION { {[i \in 1..n |-> WithId(f[i], i)] : f \in [1..n -> shapes]} : n \in 0..maxLen }

\* decoded bodies of a 200 response
JsonBodies(kind) ==
    {PyDict(<<KV("data", PyList(b))>>) : b \in PagesOf(RawShapes(kind), MaxBatch)}
    \cup {PyDict(<<KV("data", d)>>) :
             d \in {PyNone, PyStr("x"), PyInt(3), PyDict(<<KV("k", PyNone)>>)}}
    \cup {PyDict(<<>>), PyDict(<<KV("Error", PyStr("upstream"))>>),
          PyNone, PyInt(0), PyStr("ok"), PyStr("Error: rate limit"),
          PyList(<<>>), PyList(<<PyStr("Error")>>)}

Responses(kind) == ErrorResponses \cup JsonBodies(kind)

\* pages get_crm_summary is run on: deals of two owners, open and won
SummaryShapes(kind) ==
    LET raja == PyDict(<<KV("name", PyStr("Raja"))>>) IN
    IF kind = "deals"
    THEN { MkDict(<<KV("Owner", raja), KV("Stage", PyStr("Closed Won")), KV("Amount", PyInt(100))>>),
           MkDict(<<KV("Owner", PyNone), KV("Stage", PyStr("Negotiation")), KV("Amount", PyInt(50))>>),
           MkDict(<<KV("Owner", raja), KV("Stage", PyStr("closed won")), KV("Amount", PyNone)>>),
           MkDict(<<KV("Owner", raja), KV("Stage", PyStr("CLOSED WON")), KV("Amount", PyInt(0))>>),
           MkDict(<<KV("Owner", PyNone), KV("Stage", PyStr("Closed Lost")), KV("Amount", PyInt(0 - 20))>>),
           MkDict(<<KV("Owner", PyNone), KV("Stage", PyStr("Closed Won")), KV("Amount", Absent)>>) }
    ELSE { MkDict(<<KV("Owner", raja)>>), MkDict(<<KV("Owner", PyNone)>>) }

\* three deals: 100 closed won, 50 in negotiation, closed won without an
\* amount
ExampleDeals ==
    LET raja == PyDict(<<KV("name", PyStr("Raja"))>>) IN
    << WithId(MkDict(<<KV("Owner", raja), KV("Stage", PyStr("Closed Won")), KV("Amount", PyInt(100))>>), 1),
       WithId(MkDict(<<KV("Owner", PyNone), KV("Stage", PyStr("Negotiation")), KV("Amount", PyInt(50))>>), 2),
       WithId(MkDict(<<KV("Owner", raja), KV("Stage", PyStr("Closed Won")), KV("Amount", PyNone)>>), 3) >>

\* a page whose only deal is skipped: its owner name cannot be a key
SkippedDeals ==
    << WithId(MkDict(<<KV("Owner", PyDict(<<KV("name", PyList(<<PyStr("Raja")>>))>>))>>), 1) >>

\* a won deal followed by a deal whose Stage is null upstream
NullStageDeals ==
    LET raja == PyDict(<<KV("name", PyStr("Raja"))>>) IN
    << WithId(MkDict(<<KV("Owner", raja), KV("Stage", PyStr("Closed Won")), KV("Amount", PyInt(100))>>), 1),
       WithId(MkDict(<<KV("Owner", raja), KV("Stage", PyNone), KV("Amount", PyInt(50))>>), 2) >>

SummaryPages(kind) ==
    IF kind = "deals"
    THEN PagesOf(SummaryShapes(kind), MaxSummaryBatch)
         \cup {ExampleDeals, SkippedDeals, NullStageDeals}
    ELSE { <<>>,
           << WithId(MkDict(<<KV("Owner", PyDict(<<KV("name", PyStr("Raja"))>>))>>), 1),
              WithId(MkDict(<<KV("Owner", PyNone)>>), 2) >> }

SummaryResponses(kind) ==
    {PyOfResult(ErrorResult(MsgNetwork), PyNone)}
    \cup {PyDict(<<KV("data", PyList(b))>>) : b \in SummaryPages(kind)}

\* records per page in the pages the filters are run on
MaxFilterBatch == 3

\* the upstream field behind StageField
UpstreamStageField(kind) ==
    CASE kind = "deals" -> "Stage"
      [] kind = "tasks" -> "Status"
      [] kind = "leads" -> "Lead_Status"

\* upstream stage / status values
StageInputs(kind) ==
    CASE kind = "deals" -> {PyStr("Closed Won"), PyStr("Negotiation"), Absent, PyNone}
      [] kind = "tasks" -> {PyStr("Completed"), Absent}
      [] kind = "leads" -> {PyStr("Contacted"), Absent, PyNone}

\* upstream records of two owners, in every stage
FilterShapes(kind) ==
    { MkDict(<<KV("Owner", PyDict(<<KV("name", PyStr(o))>>)),
               KV(UpstreamStageField(kind), s)>>) :
        o \in {"Raja", "Priya"}, s \in StageInputs(kind) }

FilterResponses(kind) ==
    {PyOfResult(ErrorResult(MsgNetwork), PyNone)}
    \cup {PyDict(<<KV("data", PyList(b))>>) : b \in PagesOf(FilterShapes(kind), MaxFilterBatch)}

\* stage / status arguments of the filters
StageArgs(kind) ==
    CASE kind = "deals" -> {PyNone, PyStr(""), PyStr("closed won"), PyStr("Negotiation")}
      [] kind = "tasks" -> {PyStr("completed"), PyStr("Not Started")}
      [] kind = "leads" -> {PyStr("contacted"), PyStr("unknown")}

\* owner_name arguments of get_crm_summary
OwnerArgs == {PyStr("All"), PyStr("Raja"), PyStr("Unknown Owner"), PyStr("")}

NoSummaryData == [leads |-> PyNone, deals |-> PyNone, tasks |-> PyNone, notes |-> PyNone]

FacadeIdle ==
    /\ fpc = "idle"
    /\ fkind = "none"
    /\ fresp = PyNone
    /\ fout = Ok(PyNone)
    /\ farg = PyNone
    /\ sowner = PyStr("All")
    /\ sdata = NoSummaryData
    /\ sout = EmptySummary

\* no fixed upstream is in play: the CRM API and the token endpoint answer
\* as each step chooses
UpstreamIdle ==
    /\ api = [c \in TokenClasses |-> [kind |-> "status", status |-> 200, body |-> "b1"]]
    /\ tokenEndpoint = "ok"
    /\ outs = <<>>

\* one of get_deals(), get_leads(), get_tasks(), get_notes(), from the
\* value make_api_request returned to it
facade_call(kind, response_data) ==
    /\ fpc = "idle"
    /\ fpc' = "facade"
    /\ fkind' = kind
    /\ fresp' = response_data
    /\ fout' = Facade(kind, response_data)
    /\ farg' = PyNone
    /\ sowner' = PyStr("All")
    /\ sdata' = NoSummaryData
    /\ sout' = EmptySummary
    /\ UNCHANGED execVars
    /\ UNCHANGED upstreamVars
    /\ UNCHANGED otherVars

\* one of get_deals_by_stage(stage), get_tasks_by_status(status),
\* get_leads_by_status(status), from the value make_api_request returned
filter_call(kind, stage, response_data) ==
    /\ fpc = "idle"
    /\ fpc' = "filter"
    /\ fkind' = kind
    /\ fresp' = response_data
    /\ farg' = stage
    /\ fout' = CASE kind = "deals" -> get_deals_by_stage(stage, response_data)
                  [] kind = "tasks" -> get_tasks_by_status(stage, response_data)
                  [] kind = "leads" -> get_leads_by_status(stage, response_data)
    /\ sowner' = PyStr("All")
    /\ sdata' = NoSummaryData
    /\ sout' = EmptySummary
    /\ UNCHANGED execVars
    /\ UNCHANGED upstreamVars
    /\ UNCHANGED otherVars

\* get_crm_summary(owner_name), from the values make_api_request returned
\* to its four fetches
summary_call(owner_name, rl, rd, rt, rn) ==
    /\ fpc = "idle"
    /\ fpc' = "summary"
    /\ fkind' = "none"
    /\ fresp' = PyNone
    /\ fout' = Ok(PyNone)
    /\ farg' = PyNone
    /\ sowner' = owner_name
    /\ sdata' = [leads |-> get_leads(rl).val, deals |-> get_deals(rd).val,
                 tasks |-> get_tasks(rt).val, notes |-> get_notes(rn).val]
    /\ sout' = get_crm_summary(owner_name, sdata')
    /\ UNCHANGED execVars
    /\ UNCHANGED upstreamVars
    /\ UNCHANGED otherVars

(***************************************************************************)
(* Two make_api_request(url) calls running in two threads of one process,  *)
(* with no lock around the global access_token.  A thread can be           *)
(* preempted between any two accesses of the global: the test in           *)
(* get_headers, the assignment and the test in refresh_access_token, and   *)
(* the read that builds the Authorization header.                          *)
(***************************************************************************)
Threads == {"a", "b"}

\* GET outcomes of the concurrent calls: every status and exception, one body
RaceGetOutcomes == {o \in GetOutcomes : o.body \in {"b1", ""}}

\* a thread that has not called make_api_request yet
\*   pos       where the thread is
\*   attempt   its loop variable
\*   hdr       the token inside the header it built
\*   result    what its call returned
\*   ctx       who called refresh_access_token: get_headers or the 401 branch
\*   pend      the 200 answer of the token endpoint the thread is about to
\*             store: with the token it issued, or without the field
\*   refreshed a refresh_access_token call of the thread returned True
\*   failed    a refresh_access_token call of the thread returned False
\*   rejected  a GET of the thread carrying an issued token was not answered 200
NoAnswer == [o |-> "none", token |-> NoToken]

ThreadIdle ==
    [pos |-> "idle", attempt |-> 0, hdr |-> NoToken, result |-> NoResult,
     ctx |-> "none", pend |-> NoAnswer, refreshed |-> FALSE, failed |-> FALSE,
     rejected |-> FALSE]

ThreadsIdle == th = [t \in Threads |-> ThreadIdle]

\* refresh_access_token() returns ok to its caller in thread record r
RefreshReturned(r, ok) ==
    LET s == [r EXCEPT !.refreshed = @ \/ ok, !.failed = @ \/ ~ok, !.pend = NoAnswer] IN
    IF r.ctx = "headers"
    THEN IF ok
         THEN [s EXCEPT !.pos = "build"]
         ELSE [s EXCEPT !.pos = "done", !.result = ErrorResult(MsgNoHeaders)]
    ELSE IF ok
         THEN [s EXCEPT !.pos = IF AfterLoopBody(r.attempt, DefaultMaxRetries).pc = "headers"
                                 THEN "check" ELSE "done",
                        !.result = AfterLoopBody(r.attempt, DefaultMaxRetries).result,
                        !.attempt = r.attempt + 1]
         ELSE [s EXCEPT !.pos = "done", !.result = ErrorResult(MsgNoRefresh)]

\* thread t calls make_api_request(url)
thread_begin(t) ==
    /\ th[t].pos = "idle"
    /\ th' = [th EXCEPT ![t].pos = "check"]
    /\ UNCHANGED <<access_token, issued>>

\* get_headers: `if not access_token:`
thread_check(t) ==
    /\ th[t].pos = "check"
    /\ th' = [th EXCEPT ![t].pos = IF NeedsRefresh(access_token) THEN "post" ELSE "build",
                        ![t].ctx = IF NeedsRefresh(access_token) THEN "headers" ELSE @]
    /\ UNCHANGED <<access_token, issued>>

\* refresh_access_token: requests.post and the test of the status
thread_post(t) ==
    /\ th[t].pos = "post"
    /\ \E o \in PostOutcomes :
         /\ issued' = IF o = "ok" THEN issued + 1 ELSE issued
         /\ th' = [th EXCEPT ![t] =
                IF o \in {"ok", "nofield"}
                THEN [@ EXCEPT !.pos = "store",
                               !.pend = [o |-> o,
                                         token |-> IF o = "ok" THEN NewToken(issued)
                                                   ELSE NoToken]]
                ELSE RefreshReturned(@, FALSE)]
    /\ UNCHANGED access_token

\* refresh_access_token: access_token = token_data.get("access_token")
thread_store(t) ==
    /\ th[t].pos = "store"
    /\ access_token' = StoredAfterRefresh(access_token, th[t].pend.o, th[t].pend.token)
    /\ th' = [th EXCEPT ![t].pos = "test"]
    /\ UNCHANGED issued

\* refresh_access_token: `if access_token:` and the return
thread_test(t) ==
    /\ th[t].pos = "test"
    /\ th' = [th EXCEPT ![t] = RefreshReturned(@, access_token # NoToken)]
    /\ UNCHANGED <<access_token, issued>>

\* get_headers: the header is built from the global as it is now
thread_build(t) ==
    /\ th[t].pos = "build"
    /\ th' = [th EXCEPT ![t].pos = "get", ![t].hdr = access_token]
    /\ UNCHANGED <<access_token, issued>>

\* make_api_request: requests.get and the branch taken on its outcome
thread_get(t) ==
    /\ th[t].pos = "get"
    /\ \E o \in RaceGetOutcomes :
         LET r == OnGetOutcome(o, th[t].attempt, DefaultMaxRetries) IN
         th' = [th EXCEPT ![t].pos = CASE r.pc = "refresh" -> "post"
                                       [] r.pc = "headers" -> "check"
                                       [] OTHER -> "done",
                          ![t].ctx = IF r.pc = "refresh" THEN "401" ELSE @,
                          ![t].result = r.result,
                          ![t].attempt = r.attempt,
                          ![t].rejected = @ \/ (th[t].hdr \notin {NoToken, SeedToken}
                                                /\ ~(o.kind = "status" /\ o.status = 200))]
    /\ UNCHANGED <<access_token, issued>>

\* one step of one thread; everything but the global token and the threads
\* stays as it is
RaceFrame ==
    /\ UNCHANGED <<client_id, client_secret, refresh_token, pc, max_retries, attempt,
                   headers, result, log, calls>>
    /\ UNCHANGED facadeVars
    /\ UNCHANGED upstreamVars
    /\ UNCHANGED ex

RaceNext ==
    \/ \E t \in Threads : thread_begin(t) /\ RaceFrame
    \/ \E t \in Threads : thread_check(t) /\ RaceFrame
    \/ \E t \in Threads : thread_post(t) /\ RaceFrame
    \/ \E t \in Threads : thread_store(t) /\ RaceFrame
    \/ \E t \in Threads : thread_test(t) /\ RaceFrame
    \/ \E t \in Threads : thread_build(t) /\ RaceFrame
    \/ \E t \in Threads : thread_get(t) /\ RaceFrame

(***************************************************************************)
(* The standalone note export: fetch_filtered_notes of test.py.            *)
(***************************************************************************)
\* pages the Notes API holds, and notes on one page
MaxPages == 2
MaxNotesPerPage == 2

\* the access tokens the token endpoint hands to the export
ExportTokens == {1, 2}

\* what one POST of test.py's refresh_access_token can produce: HTTP 200
\* with a token, HTTP 200 without the field, another status, an exception
ExportPostOutcomes ==
    [kind : {"ok"}, token : ExportTokens]
    \cup [kind : {"nofield", "non200", "exc"}, token : {NoToken}]

\* refresh_access_token() of test.py: the token, None, or the exception of
\* requests.post, which it does not catch
export_refresh_access_token(o) ==
    CASE o.kind = "ok"  -> [exc |-> FALSE, token |-> o.token]
      [] o.kind = "exc" -> [exc |-> TRUE, token |-> NoToken]
      [] OTHER          -> [exc |-> FALSE, token |-> NoToken]

\* what one GET of the Notes API can produce: a status, or an exception
ExportGetOutcomes == {200, 401, 500, 0}

\* note j of page p as the Notes API returns it
UpstreamNote(p, j) ==
    LET n == ToString(p) \o "." \o ToString(j) IN
    PyDict(<<KV("id", PyStr(n)), KV("Note_Content", PyStr("note " \o n)),
             KV("Created_Time", PyStr("time " \o n))>>)

\* the Notes API: for each of its pages the number of notes on it and the
\* more_records flag it reports
NotesApis ==
    UNION {[1..n -> [count : 0..MaxNotesPerPage, more : BOOLEAN]] : n \in 0..MaxPages}

\* the decoded body of a 200 answer to a request for page p
PageResponse(notesApi, p) ==
    IF p \in DOMAIN notesApi
    THEN [data |-> [j \in 1..notesApi[p].count |-> UpstreamNote(p, j)],
          more |-> notesApi[p].more]
    ELSE [data |-> <<>>, more |-> FALSE]

\* {"content": note.get("Note_Content"), "created_date": note.get("Created_Time")}
FilteredNote(note) ==
    PyDict(<<[k |-> PyStr("content"), v |-> DictGet(note, PyStr("Note_Content"), PyNone)],
             [k |-> PyStr("created_date"), v |-> DictGet(note, PyStr("Created_Time"), PyNone)]>>)

\* mutant: each page replaces what was collected
Extend_Replace(all_notes, notes) == [i \in DOMAIN notes |-> FilteredNote(notes[i])]

\* all_notes.extend(filtered_notes)
Extend(all_notes, notes) == all_notes \o [i \in DOMAIN notes |-> FilteredNote(notes[i])]

\* the export before it is called
\*   pos        where the call is
\*   page       the page number of the next request
\*   token      its local access_token
\*   hdr        the token inside headers['Authorization']
\*   all_notes  the notes collected so far
\*   status     the status of the last GET (0: none, or an exception)
\*   retried    a 401 was followed by a successful refresh
\*   notesApi   the Notes API the export runs against
NoExport ==
    [pos |-> "idle", page |-> 0, token |-> NoToken, hdr |-> NoToken,
     all_notes |-> <<>>, status |-> 0, retried |-> FALSE, notesApi |-> <<>>]

\* no export is running
ExportIdle == ex = NoExport

\* the export touches nothing of zoho_crm.py
ExportFrame ==
    /\ UNCHANGED execVars
    /\ UNCHANGED facadeVars
    /\ UNCHANGED upstreamVars
    /\ UNCHANGED th

\* fetch_filtered_notes() up to the loop
fetch_filtered_notes_begin ==
    /\ ex.pos = "idle"
    /\ \E a \in NotesApis : \E o \in ExportPostOutcomes :
         LET r == export_refresh_access_token(o) IN
         ex' = IF r.exc
               THEN [ex EXCEPT !.pos = "raised", !.notesApi = a]
               ELSE IF r.token = NoToken
               THEN [ex EXCEPT !.pos = "returned", !.notesApi = a]
               ELSE [ex EXCEPT !.pos = "get", !.notesApi = a, !.token = r.token,
                               !.hdr = r.token, !.page = 1, !.all_notes = <<>>]
    /\ ExportFrame

\* one pass of the loop up to the 401 branch: requests.get, the 200 branch
\* and the else branch
fetch_filtered_notes_get ==
    /\ ex.pos = "get"
    /\ \E st \in ExportGetOutcomes :
         LET resp == PageResponse(ex.notesApi, ex.page) IN
         ex' = CASE st = 0   -> [ex EXCEPT !.pos = "raised", !.status = st]
                 [] st = 401 -> [ex EXCEPT !.pos = "refresh", !.status = st]
                 [] st = 200 ->
                      IF resp.data = <<>>
                      THEN [ex EXCEPT !.pos = "printed", !.status = st]
                      ELSE [ex EXCEPT !.status = st,
                                      !.all_notes = Extend(@, resp.data),
                                      !.page = IF resp.more THEN @ + 1 ELSE @,
                                      !.pos = IF resp.more THEN "get" ELSE "printed"]
                 [] OTHER    -> [ex EXCEPT !.pos = "printed", !.status = st]
    /\ ExportFrame

\* the 401 branch: refresh, then the same page again or the end of the loop
fetch_filtered_notes_refresh ==
    /\ ex.pos = "refresh"
    /\ \E o \in ExportPostOutcomes :
         LET r == export_refresh_access_token(o) IN
         ex' = IF r.exc
               THEN [ex EXCEPT !.pos = "raised"]
               ELSE IF r.token = NoToken
               THEN [ex EXCEPT !.pos = "printed", !.token = NoToken]
               ELSE [ex EXCEPT !.pos = "get", !.token = r.token, !.hdr = r.token,
                               !.retried = TRUE]
    /\ ExportFrame

ExportNext ==
    \/ fetch_filtered_notes_begin
    \/ fetch_filtered_notes_get
    \/ fetch_filtered_notes_refresh

OthersIdle == ThreadsIdle /\ ExportIdle

\* the module-level assignments of zoho_crm.py, for every environment
Init ==
    /\ client_id \in BOOLEAN
    /\ client_secret \in BOOLEAN
    /\ refresh_token \in BOOLEAN
    /\ access_token \in {NoToken, SeedToken}
    /\ issued = 0
    /\ pc = "idle"
    /\ max_retries = DefaultMaxRetries
    /\ attempt = 0
    /\ headers = NoToken
    /\ result = NoResult
    /\ log = <<>>
    /\ calls = 0
    /\ FacadeIdle
    /\ OthersIdle
    /\ UpstreamIdle

Next ==
    \/ \E n \in RetryBudgets : make_api_request_begin(n)
    \/ make_api_request_get_headers
    \/ make_api_request_get
    \/ make_api_request_on401

Spec == Init /\ [][Next]_vars

\* two concurrent calls in a process whose configuration is complete
RaceInit ==
    /\ client_id = TRUE
    /\ client_secret = TRUE
    /\ refresh_token = TRUE
    /\ access_token \in {NoToken, SeedToken}
    /\ issued = 0
    /\ pc = "idle"
    /\ max_retries = DefaultMaxRetries
    /\ attempt = 0
    /\ headers = NoToken
    /\ result = NoResult
    /\ log = <<>>
    /\ calls = 0
    /\ FacadeIdle
    /\ UpstreamIdle
    /\ OthersIdle

RaceSpec == RaceInit /\ [][RaceNext]_vars

\* the export of test.py, against every Notes API
ExportSpec == RaceInit /\ [][ExportNext]_vars

\* the export with its steps scheduled: requests.get and requests.post
\* return or raise
ExportLiveSpec ==
    /\ RaceInit
    /\ [][ExportNext]_vars
    /\ WF_vars(fetch_filtered_notes_begin)
    /\ WF_vars(fetch_filtered_notes_get)
    /\ WF_vars(fetch_filtered_notes_refresh)

\* the same program with every started call scheduled: a step of the
\* running call (get_headers, the GET, the refresh after a 401) is taken
\* whenever it stays possible
LiveSpec ==
    /\ Init
    /\ [][Next]_vars
    /\ WF_vars(make_api_request_get_headers)
    /\ WF_vars(make_api_request_get)
    /\ WF_vars(make_api_request_on401)

\* the facade on every value the executor can hand it
FacadeInit ==
    /\ client_id = TRUE
    /\ client_secret = TRUE
    /\ refresh_token = TRUE
    /\ access_token = SeedToken
    /\ issued = 0
    /\ pc = "idle"
    /\ max_retries = DefaultMaxRetries
    /\ attempt = 0
    /\ headers = NoToken
    /\ result = NoResult
    /\ log = <<>>
    /\ calls = 0
    /\ FacadeIdle
    /\ OthersIdle
    /\ UpstreamIdle

FacadeNext ==
    \/ fpc = "idle" /\ \E kind \in Kinds : \E r \in Responses(kind) : facade_call(kind, r)
    \/ fpc = "idle" /\ \E o \in OwnerArgs :
         \E rl \in SummaryResponses("leads"), rd \in SummaryResponses("deals"),
            rt \in SummaryResponses("tasks"), rn \in SummaryResponses("notes") :
              summary_call(o, rl, rd, rt, rn)
    \/ fpc = "idle" /\ \E kind \in FilterKinds : \E stage \in StageArgs(kind) :
         \E r \in FilterResponses(kind) : filter_call(kind, stage, r)

FacadeSpec == FacadeInit /\ [][FacadeNext]_vars

(***************************************************************************)
(* zoho_utils.filter_data_by_owner on the partitions zoho_utils.get_deals  *)
(* returns.                                                                *)
(***************************************************************************)
\* records per owner in those partitions
MaxUtilsBatch == 2

UtilsOwners == {"Raja", "Priya"}
UtilsDealNames == {"Website", "Error 500 fix"}
\* a normalised deal of zoho_utils.get_deals
UtilsDeal(owner, name) ==
    PyDict(<<KV("Deal Name", PyStr(name)), KV("Deal Owner", PyStr(owner))>>)
UtilsLists(owner) ==
    UNION {[1..n -> {UtilsDeal(owner, d) : d \in UtilsDealNames}] : n \in 1..MaxUtilsBatch}
\* what zoho_utils.get_deals() returns: deals of one or two owners, the
\* sentinel of an empty fetch, a failed fetch, or nothing (every record
\* skipped)
UtilsPartitions ==
    UNION {{PyDict(<<KV(o, PyList(l))>>) : l \in UtilsLists(o)} : o \in UtilsOwners}
    \cup {PyDict(<<KV("Raja", PyList(a)), KV("Priya", PyList(b))>>) :
              a \in UtilsLists("Raja"), b \in UtilsLists("Priya")}
    \cup {PyDict(<<KV("No Deals", PyList(<<>>))>>),
          PyDict(<<KV("Error", PyList(<<PyStr("Network error during API request: <e>")>>))>>),
          PyDict(<<>>)}
\* owner_filter: a name, a list of names, or nothing
UtilsOwnerFilters ==
    {PyNone, PyStr(""), PyStr("Raja"), PyStr("Priya"), PyStr("Zed"), PyList(<<>>),
     PyList(<<PyStr("Raja")>>), PyList(<<PyStr("Priya"), PyStr("Raja")>>)}

\* filter_data_by_owner(data, owner_filter) of zoho_utils.py is called
utils_filter_call(data, owner_filter) ==
    /\ fpc = "idle"
    /\ fpc' = "utils_filter"
    /\ fkind' = "deals"
    /\ fresp' = data
    /\ farg' = owner_filter
    /\ fout' = utils_filter_data_by_owner(data, owner_filter)
    /\ UNCHANGED <<sowner, sdata, sout>>
    /\ UNCHANGED execVars
    /\ UNCHANGED upstreamVars
    /\ UNCHANGED otherVars

UtilsNext ==
    fpc = "idle" /\ \E data \in UtilsPartitions : \E owner_filter \in UtilsOwnerFilters :
        utils_filter_call(data, owner_filter)

UtilsSpec == FacadeInit /\ [][UtilsNext]_vars

(***************************************************************************)
(* get_deals() called again and again against a fixed upstream: the CRM    *)
(* API answers a GET by the token it carries, the token endpoint answers   *)
(* every POST the same way.                                                *)
(***************************************************************************)
\* response.json() of the bodies the fixed CRM API serves
Decode(b) ==
    CASE b = "b1" -> PyDict(<<KV("data", PyList(ExampleDeals))>>)
      [] b = "b2" -> PyDict(<<KV("data", PyList(<<>>))>>)
      [] OTHER    -> PyNone

\* the answer recorded in a log entry is the fixed upstream's answer
Conforms(e) ==
    CASE e.ev = "GET"  -> [kind |-> e.out, status |-> e.status, body |-> e.body]
                             = api[TokenClass(e.tok)]
      [] e.ev = "POST" -> e.out = tokenEndpoint
      [] OTHER         -> TRUE

\* the requests of this step were answered by the fixed upstream
NewTrafficConforms == \A i \in (Len(log) + 1)..Len(log') : Conforms(log'[i])

\* get_deals(): `response_data = make_api_request(url)`
get_deals_begin ==
    /\ pc = "idle"
    /\ make_api_request_begin(DefaultMaxRetries)

\* get_deals(): everything after make_api_request returned
get_deals_return ==
    /\ pc = "done"
    /\ pc' = "idle"
    /\ outs' = Append(outs, get_deals(PyOfResult(result, Decode(result.body))).val)
    /\ UNCHANGED <<client_id, client_secret, refresh_token, access_token, issued,
                   max_retries, attempt, headers, result, log, calls>>
    /\ UNCHANGED facadeVars
    /\ UNCHANGED <<api, tokenEndpoint>>
    /\ UNCHANGED otherVars

\* every environment, token state and fixed upstream
IdemInit ==
    /\ client_id \in BOOLEAN
    /\ client_secret = TRUE
    /\ refresh_token = TRUE
    /\ access_token \in {NoToken, SeedToken}
    /\ issued = 0
    /\ pc = "idle"
    /\ max_retries = DefaultMaxRetries
    /\ attempt = 0
    /\ headers = NoToken
    /\ result = NoResult
    /\ log = <<>>
    /\ calls = 0
    /\ FacadeIdle
    /\ OthersIdle
    /\ api \in [TokenClasses -> GetOutcomes]
    /\ tokenEndpoint \in PostOutcomes
    /\ outs = <<>>

IdemNext ==
    \/ get_deals_begin
    \/ make_api_request_get_headers /\ NewTrafficConforms
    \/ make_api_request_get /\ NewTrafficConforms
    \/ make_api_request_on401 /\ NewTrafficConforms
    \/ get_deals_return

IdemSpec == IdemInit /\ [][IdemNext]_vars

(***************************************************************************)
(* test_connection() called again and again, in every environment.         *)
(***************************************************************************)
\* mutant: test_connection does not look at the configuration
ConfigMissing_Never == FALSE

\* `if not validate_config():` in test_connection
ConfigMissing == ~validate_config

\* test_connection() up to its call of make_api_request
test_connection_begin ==
    /\ fpc \in {"idle", "tested"}
    /\ pc \in {"idle", "done"}
    /\ calls < MaxCalls
    /\ fkind' = "leads"
    /\ fresp' = PyNone
    /\ IF ConfigMissing
       THEN fpc' = "tested" /\ fout' = Ok(Pair(FALSE, "Configuration missing"))
       ELSE fpc' = "test_request" /\ fout' = Ok(PyNone)
    /\ pc' = "idle"
    /\ UNCHANGED <<farg, sowner, sdata, sout>>
    /\ UNCHANGED <<client_id, client_secret, refresh_token, access_token, issued,
                   max_retries, attempt, headers, result, log, calls>>
    /\ UNCHANGED upstreamVars
    /\ UNCHANGED otherVars

\* `response_data = make_api_request(url)`
test_connection_request ==
    /\ fpc = "test_request"
    /\ pc = "idle"
    /\ make_api_request_begin(DefaultMaxRetries)

\* test_connection(): everything after make_api_request returned
test_connection_return ==
    /\ fpc = "test_request"
    /\ pc = "done"
    /\ fpc' = "tested"
    /\ fresp' = PyOfResult(result, Decode(result.body))
    /\ fout' = TestHandler(TestBody(fresp'))
    /\ UNCHANGED <<fkind, farg, sowner, sdata, sout>>
    /\ UNCHANGED execVars
    /\ UNCHANGED upstreamVars
    /\ UNCHANGED otherVars

TestNext ==
    \/ test_connection_begin
    \/ test_connection_request
    \/ make_api_request_get_headers
    \/ make_api_request_get
    \/ make_api_request_on401
    \/ test_connection_return

TestSpec == Init /\ [][TestNext]_vars

(***************************************************************************)
(* Properties of the token manager and the request executor (Spec).        *)
(***************************************************************************)
Gets(l) == SelectSeq(l, LAMBDA e : e.ev = "GET")
IsStatus(e, st) == e.ev = "GET" /\ e.out = "status" /\ e.status = st
IsNetErr(e) == e.ev = "GET" /\ e.out = "neterr"
IsRefresh(e) == e.ev \in {"POST", "REFUSED"}
RefreshOk(e) == e.ev = "POST" /\ e.out = "ok"
LastOf(l) == l[Len(l)]
\* every GET of the call so far was answered 401 and every refresh succeeded
Always401(l) ==
    \A i \in DOMAIN l : IF l[i].ev = "GET" THEN IsStatus(l[i], 401) ELSE RefreshOk(l[i])
\* every GET of the call was answered 401 or raised a network exception
AllAttemptsFailed(l) ==
    \A i \in DOMAIN l : l[i].ev = "GET" => IsStatus(l[i], 401) \/ IsNetErr(l[i])

C1_Case ==
    /\ pc = "done"
    /\ max_retries = DefaultMaxRetries
    /\ Len(Gets(log)) = 2
    /\ IsStatus(Gets(log)[1], 401)
    /\ IsStatus(Gets(log)[2], 200)
    /\ RefreshOk(log[Len(log) - 1])

\* C1: with the default budget, a first GET answered 401, a successful
\* forced refresh and a second GET answered 200 make the call return the
\* second response's JSON body (no "Error" mapping), and the second GET
\* carries the token the refresh stored, not the one the first GET carried.
C1_RefreshThenRetryReturnsJson ==
    C1_Case =>
        /\ result = JsonResult(Gets(log)[2].body)
        /\ result.kind # "Error"
        /\ Gets(log)[2].tok = log[Len(log) - 1].tok
        /\ Gets(log)[2].tok # Gets(log)[1].tok
        /\ Gets(log)[2].tok # NoToken

C1_Witness == C1_Case /\ Gets(log)[1].tok = SeedToken

\* C2: for every n >= 0, when every GET is answered 401 and every refresh
\* succeeds, the call never issues more than n+1 GETs, and it ends after
\* exactly n+1 GETs with an ErrorResult.
C2_Always401UsesWholeBudget ==
    (0 <= max_retries /\ Always401(log)) =>
        /\ Len(Gets(log)) <= max_retries + 1
        /\ (pc = "done" => Len(Gets(log)) = max_retries + 1 /\ result.kind = "Error")

C2_Witness ==
    /\ pc = "done"
    /\ max_retries = MaxRetriesBound
    /\ Always401(log)
    /\ Len(Gets(log)) = MaxRetriesBound + 1

C3_Case ==
    /\ pc = "done"
    /\ 0 <= max_retries
    /\ Len(Gets(log)) = max_retries + 1
    /\ AllAttemptsFailed(log)

\* C3 as stated: a call whose max_retries+1 attempts all failed (401 or
\* network exception) returns the ErrorResult "Max retries exceeded".
C3_ExhaustionReturnsMaxRetries ==
    C3_Case => result = ErrorResult(MsgMaxRetries)

\* C3 amended: such a call returns the ErrorResult of its last attempt,
\* "API request failed: 401 - <body>" after a 401 and the network error
\* message after a network exception; "Max retries exceeded" is returned
\* only when max_retries < 0, where the loop runs no attempt at all.
C3_ExhaustionReturnsLastFailure ==
    /\ C3_Case =>
         result = IF IsNetErr(LastOf(log))
                  THEN ErrorResult(MsgNetwork)
                  ELSE ErrorResult(MsgApiFailed(401, LastOf(log).body))
    /\ (pc = "done" /\ result = ErrorResult(MsgMaxRetries)) => max_retries < 0

C3_Witness ==
    /\ C3_Case
    /\ max_retries = DefaultMaxRetries
    /\ IsStatus(Gets(log)[1], 401)
    /\ IsNetErr(Gets(log)[2])
    /\ IsNetErr(Gets(log)[3])

\* one get_headers call of make_api_request, and whether it sent the POST
HeadersStep == pc = "headers" /\ pc' # "headers"
PostSent == Len(log') > Len(log) /\ log'[Len(log')].ev = "POST"

\* C4 as stated: get_headers sends the refresh POST if and only if no
\* access token is stored.
C4_PostIffNoToken ==
    [][HeadersStep => (PostSent <=> access_token = NoToken)]_vars

\* C4 amended: get_headers sends the refresh POST if and only if no access
\* token is stored and the credential set is complete; a POST answered 200
\* with an access_token stores that token and the header is built from it;
\* with a token stored get_headers returns a header built from it, sends no
\* POST and leaves it stored; and the stored token changes only in a
\* get_headers call that found none or in the refresh a 401 forces.
C4_PostIffNoTokenAndConfig ==
    [][ /\ HeadersStep =>
            /\ PostSent <=> (access_token = NoToken /\ validate_config)
            /\ (PostSent /\ log'[Len(log')].out = "ok") =>
                   /\ access_token' = log'[Len(log')].tok
                   /\ access_token' # NoToken
                   /\ headers' = access_token'
                   /\ pc' = "get"
            /\ access_token # NoToken =>
                   /\ headers' = access_token
                   /\ access_token' = access_token
                   /\ log' = log
                   /\ pc' = "get"
        /\ access_token' # access_token =>
            \/ pc = "headers" /\ access_token = NoToken
            \/ pc = "refresh" /\ IsStatus(LastOf(log), 401)
      ]_vars

\* a later call's get_headers reused, without a POST, a token a refresh stored
C4_Witness ==
    /\ calls = 2
    /\ pc = "get"
    /\ log = <<>>
    /\ issued = 1
    /\ access_token = NewToken(0)
    /\ headers = access_token

\* C5: with a credential missing, get_headers returns no headers whether or
\* not a token is stored, so no GET is issued.
C5_NoGetWithIncompleteConfig ==
    ~validate_config => Len(Gets(log)) = 0

\* position i of the log is a refresh made by get_headers (not one forced
\* by a 401) that failed
FailedHeadersRefresh(l, i) ==
    /\ IsRefresh(l[i])
    /\ ~RefreshOk(l[i])
    /\ (i = 1 \/ ~IsStatus(l[i - 1], 401))

\* C6: when get_headers produces no headers the call returns "Unable to
\* get valid headers for API request" at once, and no GET is issued in
\* that call, neither before nor after.
C6_NoHeadersNoGet ==
    /\ \A i \in DOMAIN log :
         FailedHeadersRefresh(log, i) =>
            /\ i = Len(log)
            /\ pc = "done"
            /\ result = ErrorResult(MsgNoHeaders)
    /\ result = ErrorResult(MsgNoHeaders) =>
         /\ pc = "done"
         /\ Len(Gets(log)) = 0
         /\ access_token = NoToken

C6_Witness ==
    /\ result = ErrorResult(MsgNoHeaders)
    /\ validate_config
    /\ LastOf(log).out = "non200"

\* C7: a status other than 200 and 401 ends the call on that attempt: the
\* GET is the last request of the call (no further GET, no refresh POST)
\* and the call returns the ErrorResult with that status and body.
C7_OtherStatusEndsCall ==
    \A i \in DOMAIN log :
        (log[i].ev = "GET" /\ log[i].out = "status" /\ log[i].status \notin {200, 401}) =>
            /\ i = Len(log)
            /\ pc = "done"
            /\ result = ErrorResult(MsgApiFailed(log[i].status, log[i].body))
            /\ access_token = log[i].tok

C7_Witness ==
    /\ pc = "done"
    /\ Len(log) = 1
    /\ IsStatus(log[1], 500)
    /\ attempt < max_retries

\* the attempt number of the GET at position i of the log
AttemptOf(l, i) == Len(Gets(SubSeq(l, 1, i))) - 1

\* C8: a network exception on attempt i is retried iff i < max_retries;
\* the retry is the very next request, with the same token and no refresh
\* in between; on the last attempt the call returns the network error;
\* 401 retries and network retries share the budget of max_retries+1 GETs.
C8_NetworkErrorRetry ==
    /\ \A i \in DOMAIN log :
         IsNetErr(log[i]) =>
            IF AttemptOf(log, i) < max_retries
            THEN /\ ~(i = Len(log) /\ pc = "done")
                 /\ i < Len(log) => /\ log[i + 1].ev = "GET"
                                    /\ log[i + 1].tok = log[i].tok
            ELSE /\ i = Len(log)
                 /\ pc = "done"
                 /\ result = ErrorResult(MsgNetwork)
    /\ 0 <= max_retries => Len(Gets(log)) <= max_retries + 1

C8_Witness ==
    /\ pc = "done"
    /\ max_retries = DefaultMaxRetries
    /\ Len(log) = 4
    /\ IsStatus(log[1], 401)
    /\ RefreshOk(log[2])
    /\ IsNetErr(log[3])
    /\ IsNetErr(log[4])
    /\ result = ErrorResult(MsgNetwork)

(***************************************************************************)
(* Properties of the query facade and of get_crm_summary (FacadeSpec).     *)
(***************************************************************************)
\* every ErrorResult the executor returns is one the facade is run on
ExecutorErrorsCovered ==
    (pc = "done" /\ result.kind = "Error") => result.msg \in ErrorMessages

\* the facade result is the mapping {"Error": [...]}
IsErrorMapping(d) == d.t = "dict" /\ HasKey(d, PyStr("Error"))

\* C9: when make_api_request returned an ErrorResult with message m, the
\* facade returns exactly {"Error": [m]}; and whatever make_api_request
\* returned and whatever the records look like, the facade returns a
\* mapping and does not raise.
C9_FacadeNeverRaises ==
    fpc = "facade" =>
        /\ ~fout.exc
        /\ fout.val.t = "dict"
        /\ fresp \in ErrorResponses =>
              /\ DictGet(fresp, PyStr("Error"), PyNone).t = "str"
              /\ fout.val = PyDict(<<KV("Error",
                                 PyList(<<DictGet(fresp, PyStr("Error"), PyNone)>>))>>)

C9_Witness ==
    /\ fpc = "facade"
    /\ fkind = "notes"
    /\ fresp = PyOfResult(ErrorResult(MsgApiFailed(500, "b1")), PyNone)
    /\ fout = Ok(PyDict(<<KV("Error", PyList(<<PyStr("API request failed: 500 - b1")>>))>>))

\* the list get_crm_summary is to return for one kind whose fetch succeeded
ExpectedList(owner_name, d) ==
    IF owner_name = PyStr("All")
    THEN Flatten(d)
    ELSE DictGet(d, owner_name, PyList(<<>>))

\* C10: get_crm_summary("All") and get_crm_summary(owner) return an empty
\* list and a count of 0 for every kind whose fetch failed (never a list
\* holding the error message), and the lists and counts of the kinds that
\* were fetched successfully are what they are without the failure.
C10_SummaryFailedFetchIsNoData ==
    (fpc = "summary" /\ sowner # PyStr("")) =>
        \A k \in Kinds :
            IF IsErrorMapping(sdata[k])
            THEN sout[k] = PyList(<<>>) /\ sout["total_" \o k] = 0
            ELSE /\ sout[k] = ExpectedList(sowner, sdata[k])
                 /\ sout["total_" \o k] = PyLen(sout[k])

\* the upstream fetch succeeded: make_api_request returned a decoded body
\* that is a mapping without an "Error" key
FetchSucceeded(r) == r.t = "dict" /\ ~HasKey(r, PyStr("Error"))

\* C11: for each entity kind, when the fetch succeeds and the "data" list
\* is empty, null or absent, the facade returns exactly the fixed sentinel
\* mapping of that kind: {"No Deals": []}, {"No Leads": []}, {"No Tasks": []}
\* or {"No Notes": []}.
C11_ZeroRecordsGiveSentinel ==
    ( /\ fpc = "facade"
      /\ FetchSucceeded(fresp)
      /\ DictGet(fresp, PyStr("data"), Absent) \in {PyList(<<>>), PyNone, Absent} ) =>
        fout = Ok(PyDict(<<KV(CASE fkind = "deals" -> "No Deals"
                                [] fkind = "leads" -> "No Leads"
                                [] fkind = "tasks" -> "No Tasks"
                                [] fkind = "notes" -> "No Notes",
                              PyList(<<>>))>>))

C11_Witness ==
    /\ fpc = "facade"
    /\ fkind = "tasks"
    /\ fresp = PyDict(<<KV("data", PyNone)>>)
    /\ fout = Ok(PyDict(<<KV("No Tasks", PyList(<<>>))>>))

\* the fetch returned a page: a mapping whose "data" is a list
IsPage(r) == FetchSucceeded(r) /\ DictGet(r, PyStr("data"), PyNone).t = "list"
PageOf(r) == DictGet(r, PyStr("data"), PyNone).xs

\* the normalised record's id field
IdField(kind) ==
    CASE kind = "deals" -> "Deal ID"
      [] kind = "leads" -> "Lead ID"
      [] kind = "tasks" -> "Task ID"
      [] kind = "notes" -> "Note ID"

\* the normalised records of a facade result, over all owners
OutRecords(d) == FlattenFrom(DictValues(d), 1)

\* out is the normalised record of the i-th upstream record
IsRecordOf(out, kind, i) ==
    out.t = "dict" /\ DictGet(out, PyStr(IdField(kind)), PyNone) = PyStr(ToString(i))

\* the upstream record carries no owner reference: Owner absent or null
OwnerMissing(raw) == raw.t = "dict" /\ DictGet(raw, PyStr("Owner"), PyNone) = PyNone

\* C12: for every raw deal, lead, task or note whose Owner reference is
\* absent or null, the owner field stored in the normalised record is the
\* sentinel "Unassigned" or "Unknown Owner", never null and never "".
C12_MissingOwnerStoredAsSentinel ==
    (fpc = "facade" /\ IsPage(fresp) /\ ~fout.exc /\ ~IsErrorMapping(fout.val)) =>
        \A i \in DOMAIN PageOf(fresp) :
            OwnerMissing(PageOf(fresp)[i]) =>
                \A j \in DOMAIN OutRecords(fout.val) :
                    IsRecordOf(OutRecords(fout.val)[j], fkind, i) =>
                        DictGet(OutRecords(fout.val)[j], PyStr(OwnerField(fkind)), PyNone)
                            \in {PyStr("Unassigned"), PyStr("Unknown Owner")}

\* the upstream Owner values the grouping key is specified for
C13_Owners ==
    { PyDict(<<KV("name", PyStr("Raja")), KV("id", PyStr("u1"))>>),
      PyDict(<<KV("name", PyStr("Priya")), KV("id", PyStr("u2"))>>),
      PyDict(<<KV("name", PyStr(""))>>),
      PyDict(<<KV("name", PyNone)>>),
      PyDict(<<KV("id", PyStr("u3"))>>),
      PyStr("Raja"), PyStr(""), PyNone, Absent }

\* a record that normalises, with one of those Owner values
C13_Record(kind, raw) ==
    /\ raw.t = "dict"
    /\ DictGet(raw, PyStr("Owner"), Absent) \in C13_Owners
    /\ kind = "notes" => DictGet(raw, PyStr("Parent_Id"), Absent) # PyNone

\* C13: for every upstream Owner value among {object with a name, object
\* with an empty or null name, object without a name, plain string, empty
\* string, null, absent}, the record is grouped, and the key it is grouped
\* under is a string that is not empty (never null, never "").
C13_OwnerKeyNeverEmpty ==
    ( /\ fpc = "facade"
      /\ IsPage(fresp)
      /\ PageOf(fresp) # <<>>
      /\ \A i \in DOMAIN PageOf(fresp) : C13_Record(fkind, PageOf(fresp)[i]) ) =>
        /\ ~fout.exc
        /\ fout.val.t = "dict"
        /\ \A k \in DOMAIN fout.val.kv :
              /\ fout.val.kv[k].k.t = "str"
              /\ fout.val.kv[k].k.s # ""
              /\ fout.val.kv[k].v.t = "list"
        /\ \A i \in DOMAIN PageOf(fresp) :
              \E j \in DOMAIN OutRecords(fout.val) :
                  IsRecordOf(OutRecords(fout.val)[j], fkind, i)

C13_Witness ==
    /\ fpc = "facade"
    /\ fkind = "leads"
    /\ IsPage(fresp)
    /\ Len(PageOf(fresp)) = 2
    /\ \A i \in 1..2 : PageOf(fresp)[i].t = "dict"
    /\ DictGet(PageOf(fresp)[1], PyStr("Owner"), Absent) = PyDict(<<KV("name", PyStr(""))>>)
    /\ DictGet(PageOf(fresp)[2], PyStr("Owner"), Absent) = PyNone
    /\ DictKeys(fout.val) = <<PyStr("Unknown Owner")>>
    /\ Len(OutRecords(fout.val)) = 2

\* a raw record whose normalisation fails: it is not a mapping, or it is a
\* note whose Parent_Id is null, or its owner name cannot be a key
C14_Malformed(kind, raw) ==
    \/ raw.t # "dict"
    \/ /\ raw.t = "dict"
       /\ \/ kind = "notes" /\ DictGet(raw, PyStr("Parent_Id"), Absent) = PyNone
          \/ LET o == DictGet(raw, PyStr("Owner"), PyNone) IN
             o.t = "dict" /\ ~Hashable(DictGet(o, PyStr("name"), PyNone))

\* C14: for every batch in which one raw record is malformed, the facade
\* skips exactly that record and returns the partition of all the other
\* records of the batch; no {"Error": ...} mapping is returned.
C14_OneBadRecordIsSkipped ==
    ( /\ fpc = "facade"
      /\ IsPage(fresp)
      /\ Cardinality({i \in DOMAIN PageOf(fresp) : C14_Malformed(fkind, PageOf(fresp)[i])}) = 1 ) =>
        /\ ~fout.exc
        /\ ~IsErrorMapping(fout.val)
        /\ \A i \in DOMAIN PageOf(fresp) :
              (\E j \in DOMAIN OutRecords(fout.val) :
                   IsRecordOf(OutRecords(fout.val)[j], fkind, i))
              <=> ~C14_Malformed(fkind, PageOf(fresp)[i])

\* C15: the reserved keys never collide with a real owner name: on a
\* fetched page of well-formed records the facade result has no "Error" key
\* (the fetch did not fail), and it has the kind's "No <Kind>" key only when
\* the page holds zero records.
C15_ReservedKeysNeverCollide ==
    ( /\ fpc = "facade"
      /\ IsPage(fresp)
      /\ \A i \in DOMAIN PageOf(fresp) : ~C14_Malformed(fkind, PageOf(fresp)[i]) ) =>
        /\ ~fout.exc
        /\ fout.val.t = "dict"
        /\ ~HasKey(fout.val, PyStr("Error"))
        /\ \A k \in Kinds :
              HasKey(fout.val, PyStr(SentinelKey(k))) => PageOf(fresp) = <<>>

\* the partition the filter's own fetch returned
Unfiltered == Facade(fkind, fresp).val

\* every record of the partition d carries a string in the compared field
AllStagesAreStrings(kind, d) ==
    \A j \in DOMAIN OutRecords(d) :
        DictGet(OutRecords(d)[j], PyStr(StageField(kind)), PyStr("")).t = "str"

\* the record's stage / status equals the argument case-insensitively
C16_Matches(kind, record, stage) ==
    Lower(DictGet(record, PyStr(StageField(kind)), PyStr("")).s) = Lower(stage.s)

\* each owner of the partition d with the in-order subsequence of its
\* records that match
C16_Subsequences(kind, d, stage) ==
    [i \in DOMAIN d.kv |->
        [k |-> d.kv[i].k,
         v |-> PyList(SelectSeq(d.kv[i].v.xs, LAMBDA r : C16_Matches(kind, r, stage)))]]

\* a filter called with a non-empty stage / status on a successfully
\* fetched partition
C16_Case ==
    /\ fpc = "filter"
    /\ farg.t = "str"
    /\ farg # PyStr("")
    /\ ~IsErrorMapping(Unfiltered)

C17_Deals == ExpectedList(sowner, sdata.deals).xs

\* a deal's Amount, a null or absent Amount counting as nothing
C17_Amount(deal) ==
    LET a == DictGet(deal, PyStr("Amount"), PyNone) IN IF a.t = "int" THEN a.n ELSE 0

\* the stage texts that equal "closed won" case-insensitively
C17_Closed(deal) ==
    DictGet(deal, PyStr("Stage"), PyNone)
        \in {PyStr("Closed Won"), PyStr("closed won"), PyStr("CLOSED WON")}

RECURSIVE C17_Sum(_)
C17_Sum(amounts) ==
    IF amounts = <<>> THEN 0 ELSE Head(amounts) + C17_Sum(Tail(amounts))

\* C17: for every list of deals with Amount an integer or null and Stage a
\* string, total_deal_value is the sum of the non-null, non-zero Amounts,
\* closed_deals is the number of deals whose Stage equals "closed won"
\* case-insensitively (a null Amount included), and closed_deal_value is
\* the sum of the non-null Amounts of those deals; no other stage counts.
C17_SummaryMath ==
    ( /\ fpc = "summary"
      /\ sowner # PyStr("")
      /\ ~IsErrorMapping(sdata.deals)
      /\ AllStagesAreStrings("deals", sdata.deals) ) =>
        LET closed == SelectSeq(C17_Deals, C17_Closed) IN
        /\ sout.deals = PyList(C17_Deals)
        /\ sout.total_deal_value =
              C17_Sum([i \in DOMAIN C17_Deals |-> C17_Amount(C17_Deals[i])])
        /\ sout.closed_deals = Len(closed)
        /\ sout.closed_deal_value =
              C17_Sum([i \in DOMAIN closed |-> C17_Amount(closed[i])])

C17_Witness ==
    /\ fpc = "summary"
    /\ sowner = PyStr("All")
    /\ Len(sout.deals.xs) = 3
    /\ sout.total_deal_value = 150
    /\ sout.closed_deals = 2
    /\ sout.closed_deal_value = 100

\* C18: when all four fetches succeed, get_crm_summary("All") returns for
\* each kind the concatenation of every owner's list in the partition's
\* owner order, get_crm_summary(owner) returns for each kind exactly that
\* owner's entry of the partition, or an empty list when the owner has no
\* entry, and total_leads, total_deals, total_tasks, total_notes are the
\* lengths of the returned lists.
C18_SummaryListsAndTotals ==
    ( /\ fpc = "summary"
      /\ \A k \in Kinds : ~IsErrorMapping(sdata[k])
      /\ AllStagesAreStrings("deals", sdata.deals) ) =>
        \A k \in Kinds :
            /\ sout[k] = ExpectedList(sowner, sdata[k])
            /\ sout[k].t = "list"
            /\ sout["total_" \o k] = Len(sout[k].xs)

\* the position in the upstream page of a normalised record
C19_Index(out) ==
    CHOOSE i \in DOMAIN PageOf(fresp) : IsRecordOf(out, fkind, i)

\* the normalised record of upstream record i is in the list of owner key
C19_GroupedUnder(i, key) ==
    LET l == DictGet(fout.val, key, PyList(<<>>)) IN
    \E j \in DOMAIN l.xs : IsRecordOf(l.xs[j], fkind, i)

\* C19: owners appear in the returned mapping in the order in which each is
\* first seen in the upstream page, each owner's list holds that owner's
\* records in upstream order, every well-formed upstream record appears in
\* exactly one owner's list, a record with Owner {name: n}, n non-empty, is
\* grouped under n and a record with a null Owner under the sentinel key.
C19_PartitionKeepsOrder ==
    ( /\ fpc = "facade"
      /\ IsPage(fresp)
      /\ PageOf(fresp) # <<>>
      /\ \A i \in DOMAIN PageOf(fresp) : ~C14_Malformed(fkind, PageOf(fresp)[i]) ) =>
        LET page == PageOf(fresp)
            kv == fout.val.kv
            all == OutRecords(fout.val)
        IN  /\ ~fout.exc
            /\ fout.val.t = "dict"
            /\ Len(all) = Len(page)
            /\ \A i \in DOMAIN page : \E j \in DOMAIN all : IsRecordOf(all[j], fkind, i)
            /\ \A k \in DOMAIN kv :
                  /\ kv[k].v.xs # <<>>
                  /\ \A a, b \in DOMAIN kv[k].v.xs :
                        a < b => C19_Index(kv[k].v.xs[a]) < C19_Index(kv[k].v.xs[b])
            /\ \A k1, k2 \in DOMAIN kv :
                  k1 < k2 => C19_Index(kv[k1].v.xs[1]) < C19_Index(kv[k2].v.xs[1])
            /\ \A i \in DOMAIN page :
                  LET o == DictGet(page[i], PyStr("Owner"), Absent) IN
                  /\ (o.t = "dict" /\ DictGet(o, PyStr("name"), PyNone).t = "str"
                         /\ DictGet(o, PyStr("name"), PyNone) # PyStr(""))
                        => C19_GroupedUnder(i, DictGet(o, PyStr("name"), PyNone))
                  /\ o = PyNone => C19_GroupedUnder(i, PyStr("Unknown Owner"))

C19_Witness ==
    /\ fpc = "facade"
    /\ fkind = "leads"
    /\ IsPage(fresp)
    /\ Len(PageOf(fresp)) = 2
    /\ \A i \in 1..2 : PageOf(fresp)[i].t = "dict"
    /\ DictGet(PageOf(fresp)[1], PyStr("Owner"), Absent)
          = PyDict(<<KV("name", PyStr("Raja")), KV("id", PyStr("u1"))>>)
    /\ DictGet(PageOf(fresp)[2], PyStr("Owner"), Absent) = PyNone
    /\ DictKeys(fout.val) = <<PyStr("Raja"), PyStr("Unknown Owner")>>
    /\ C19_GroupedUnder(1, PyStr("Raja"))
    /\ C19_GroupedUnder(2, PyStr("Unknown Owner"))

(***************************************************************************)
(* Properties of repeated get_deals() calls (IdemSpec).                    *)
(***************************************************************************)
\* C20: for every initial token state (no token, valid token, stale token)
\* and every fixed upstream, two consecutive get_deals() calls return
\* identical results, the second call starting from the token state the
\* first one left behind.
C20_GetDealsIdempotent ==
    Len(outs) >= 2 => outs[1] = outs[2]

(***************************************************************************)
(* Properties of test_connection (TestSpec).                               *)
(***************************************************************************)
\* a required credential is missing
C21_CredentialMissing == ~(client_id /\ client_secret /\ refresh_token)

\* C21 (as stated): test_connection returns a (boolean, message) pair whose
\* boolean, with the configuration complete, is True exactly when
\* make_api_request yields no ErrorResult.
C21_TrueExactlyWhenNoErrorResult ==
    (fpc = "tested" /\ ~C21_CredentialMissing) =>
        /\ ~fout.exc
        /\ fout.val.t = "tuple"
        /\ fout.val.xs[1] = PyBool(result.kind # "Error")

\* C21 (amended): test_connection never raises and always returns a
\* (boolean, message) pair; with a required credential missing it returns
\* (False, "Configuration missing") and no HTTP request is issued, even if an
\* access token is stored; otherwise it returns False with the error message
\* when make_api_request returned an ErrorResult, True when it returned a
\* decoded mapping without an "Error" key, and (False, "Connection error:
\* ...") when the decoded body of the 200 response is JSON null.
C21_TestConnectionContract ==
    /\ C21_CredentialMissing => (log = <<>> /\ calls = 0)
    /\ fpc = "tested" =>
          /\ ~fout.exc
          /\ fout.val.t = "tuple"
          /\ Len(fout.val.xs) = 2
          /\ fout.val.xs[1].t = "bool"
          /\ fout.val.xs[2].t = "str"
          /\ IF C21_CredentialMissing
             THEN fout.val = Pair(FALSE, "Configuration missing")
             ELSE /\ result.kind = "Error" =>
                       fout.val = Pair(FALSE, "API connection failed: " \o Render(result.msg))
                  /\ (result.kind = "json" /\ Decode(result.body).t = "dict") =>
                       fout.val = Pair(TRUE, "API connection successful")
                  /\ (result.kind = "json" /\ Decode(result.body) = PyNone) =>
                       fout.val = Pair(FALSE, "Connection error: <e>")

C21_Witness ==
    /\ fpc = "tested"
    /\ C21_CredentialMissing
    /\ access_token = SeedToken
    /\ fout = Ok(Pair(FALSE, "Configuration missing"))

(***************************************************************************)
(* Frame of a failed refresh (Spec).                                       *)
(***************************************************************************)
\* the refresh_access_token calls a step made that returned False
C23_FailedRefreshes(before, after) ==
    {i \in (Len(before) + 1)..Len(after) :
        after[i].ev \in {"POST", "REFUSED"} /\ after[i].out # "ok"}

\* C23: every refresh_access_token call that returns False (missing
\* configuration, non-200 status, HTTP 200 without an access_token field,
\* network exception) leaves the stored access token exactly as it was
\* before the call.
C23_FailedRefreshKeepsToken ==
    [][C23_FailedRefreshes(log, log') # {} => access_token' = access_token]_vars

(***************************************************************************)
(* Termination and request budget of make_api_request (LiveSpec).          *)
(***************************************************************************)
\* the token-refresh POSTs of the call so far
C25_Posts(l) == SelectSeq(l, LAMBDA e : e.ev = "POST")
\* the call is between its first statement and its return
C25_Running == pc \in {"headers", "get", "refresh"}

\* C25: make_api_request(url, max_retries=n) terminates for every n >= 0
\* and every behaviour of the CRM API and the token endpoint, after at most
\* n+1 GET requests and at most n+1 token-refresh POSTs.
C25_TerminatesWithinBudget ==
    /\ [](max_retries >= 0 =>
            /\ Len(Gets(log)) <= max_retries + 1
            /\ Len(C25_Posts(log)) <= max_retries + 1)
    /\ (C25_Running ~> pc = "done")

C25_Witness ==
    /\ pc = "done"
    /\ max_retries = MaxRetriesBound
    /\ Len(Gets(log)) = max_retries + 1
    /\ Len(C25_Posts(log)) = max_retries + 1

(***************************************************************************)
(* Deals whose Stage is null upstream (FacadeSpec).                        *)
(***************************************************************************)
\* C26: for every successfully fetched set of deals, including deals whose
\* upstream Stage is present but null, get_crm_summary("All") returns
\* total_deals equal to the number of normalized deals and the fetched
\* leads, tasks and notes lists with their true counts, and
\* get_deals_by_stage(stage) returns a partition rather than an
\* {"Error": ...} mapping.
C26_NullStageIsHarmless ==
    /\ ( /\ fpc = "summary"
         /\ sowner = PyStr("All")
         /\ \A k \in Kinds : ~IsErrorMapping(sdata[k]) ) =>
           /\ sout.total_deals = PyLen(Flatten(sdata.deals))
           /\ \A k \in {"leads", "tasks", "notes"} :
                 /\ sout[k] = Flatten(sdata[k])
                 /\ sout["total_" \o k] = PyLen(Flatten(sdata[k]))
    /\ ( /\ fpc = "filter"
         /\ fkind = "deals"
         /\ ~IsErrorMapping(Unfiltered) ) =>
           /\ ~fout.exc
           /\ ~IsErrorMapping(fout.val)

(***************************************************************************)
(* The facade result is never an empty mapping (FacadeSpec).               *)
(***************************************************************************)
\* C27: get_deals, get_leads, get_tasks and get_notes never return an empty
\* mapping: for every upstream response, including a page in which every
\* record is skipped, the result has at least one key.
C27_ResultIsNeverEmpty ==
    fpc = "facade" =>
        /\ ~fout.exc
        /\ fout.val.t = "dict"
        /\ fout.val.kv # <<>>

(***************************************************************************)
(* zoho_utils.filter_data_by_owner returns the requested owners only       *)
(* (UtilsSpec).                                                            *)
(***************************************************************************)
\* the names owner_filter asks for
C28_Wanted == IF farg.t = "str" THEN {farg} ELSE {farg.xs[i] : i \in DOMAIN farg.xs}

\* C28: with a non-empty owner_filter (a name or a list of names) and a
\* non-empty owner-partitioned mapping, zoho_utils.filter_data_by_owner
\* returns only the entries whose owner key is in owner_filter, whatever the
\* records contain; no other owner's records are returned.
C28_OnlyRequestedOwners ==
    ( /\ fpc = "utils_filter"
      /\ farg \notin {PyNone, PyStr(""), PyList(<<>>)}
      /\ fresp.kv # <<>>
      /\ \A i \in DOMAIN fresp.kv : fresp.kv[i].k.s \in UtilsOwners ) =>
        /\ ~fout.exc
        /\ fout.val = PyDict(SelectSeq(fresp.kv, LAMBDA e : e.k \in C28_Wanted))

(***************************************************************************)
(* Two concurrent calls (RaceSpec).                                        *)
(***************************************************************************)
\* the tokens the token endpoint has issued so far
C22_IssuedTokens == {NewToken(i) : i \in 0..(issued - 1)}

\* both calls have returned, each after a successful refresh of its own, no
\* refresh failed, and the CRM API answered 200 to every GET that carried
\* an issued token
C22_Case ==
    \A t \in Threads :
        /\ th[t].pos = "done"
        /\ th[t].refreshed
        /\ ~th[t].failed
        /\ ~th[t].rejected

\* C22: when two make_api_request calls run concurrently and each performs
\* a successful token refresh, then in every interleaving of their steps
\* the stored access token after both refreshes is one of the tokens the
\* token endpoint issued, and both calls return the 200 JSON.
C22_RaceLeavesValidToken ==
    C22_Case =>
        /\ access_token \in C22_IssuedTokens
        /\ \A t \in Threads : th[t].result.kind = "json"

\* the token of the earlier refresh is the one left stored
C22_Witness ==
    /\ C22_Case
    /\ issued = 2
    /\ access_token = NewToken(0)
    /\ \A t \in Threads : th[t].result.kind = "json"

\* C24: no GET to the CRM API is ever sent with an Authorization header
\* built from an absent token, in every interleaving of two concurrent
\* make_api_request calls.
C24_NoGetWithoutToken ==
    \A t \in Threads : th[t].pos = "get" => th[t].hdr # NoToken

(***************************************************************************)
(* The note export (ExportSpec, ExportLiveSpec).                           *)
(***************************************************************************)
\* fetch_filtered_notes has returned or raised
C29_Ended == ex.pos \in {"printed", "returned", "raised"}

\* C29: fetch_filtered_notes terminates for every behaviour of the CRM API
\* in which the number of pages is finite, including an API that answers 401
\* to every request while every token refresh succeeds.
C29_ExportTerminates == <>C29_Ended

\* the exported form of note j of page p
C30_Note(p, j) ==
    LET n == ToString(p) \o "." \o ToString(j) IN
    PyDict(<<KV("content", PyStr("note " \o n)), KV("created_date", PyStr("time " \o n))>>)

\* the notes of pages 1..k in page order, each once
RECURSIVE C30_NotesOfPages(_, _)
C30_NotesOfPages(notesApi, k) ==
    IF k = 0
    THEN <<>>
    ELSE C30_NotesOfPages(notesApi, k - 1)
         \o [j \in 1..notesApi[k].count |-> C30_Note(k, j)]

\* page p of the API has notes and reports more_records
C30_Continues(notesApi, p) ==
    p \in DOMAIN notesApi /\ notesApi[p].count > 0 /\ notesApi[p].more

C30_PageInvariant ==
    /\ ex.pos \in {"get", "refresh", "printed"} => ex.page >= 1
    /\ ex.pos \in {"get", "refresh"} =>
          /\ \A p \in 1..(ex.page - 1) : C30_Continues(ex.notesApi, p)
          /\ ex.all_notes = C30_NotesOfPages(ex.notesApi, ex.page - 1)
    /\ ex.pos = "get" => ex.hdr = ex.token /\ ex.token # NoToken
    /\ ( /\ ex.pos = "printed"
         /\ ex.status = 200
         /\ ex.page \in DOMAIN ex.notesApi
         /\ ex.notesApi[ex.page].count > 0 ) =>
          /\ ~ex.notesApi[ex.page].more
          /\ ex.all_notes = C30_NotesOfPages(ex.notesApi, ex.page)

C30_PageStep ==
    /\ (ex.pos = "idle" /\ ex'.pos = "get") => ex'.page = 1
    /\ (ex.pos # "idle" /\ ex'.page # ex.page) =>
          /\ ex.pos = "get"
          /\ ex'.status = 200
          /\ C30_Continues(ex.notesApi, ex.page)
          /\ ex'.page = ex.page + 1
    /\ (ex.pos = "refresh" /\ ex'.pos = "get") =>
          /\ ex'.page = ex.page
          /\ ex'.all_notes = ex.all_notes
          /\ ex'.token \in ExportTokens
          /\ ex'.hdr = ex'.token

\* C30: the page number starts at 1 and increases by exactly 1 only after a
\* 200 response with a non-empty data list and more_records true; a 401
\* followed by a successful refresh re-requests the same page with the new
\* token; when the loop ends on a page with more_records false, the
\* collected notes are the notes of pages 1..k in page order, each page's
\* notes exactly once, with no page skipped or duplicated.
C30_PagesInOrder == []C30_PageInvariant /\ [][C30_PageStep]_vars

C30_Witness ==
    /\ ex.pos = "printed"
    /\ ex.status = 200
    /\ ex.page = 2
    /\ ex.retried
    /\ 2 \in DOMAIN ex.notesApi
    /\ ex.notesApi[2].count > 0
    /\ Len(ex.all_notes) = 4
    /\ ex.all_notes = C30_NotesOfPages(ex.notesApi, 2)

====
